---- MODULE Spec2Model ----
(***************************************************************************)
(* Model of the forecast-merging / signal-consensus engine of the crypto   *)
(* forecast CLI: the four time-bounded caches, mergeForecasts,             *)
(* combineSignals, calculateAllIndicators, the strategies' execute() and   *)
(* the backtest harness.                                                   *)
(*                                                                         *)
(* Numbers.  Prices, weights (in hundredths), accuracies (in hundredths)   *)
(* and confidences (in hundredths) are integers.  Results of divisions are *)
(* kept exact as extended rationals [k, n, d]: k = "fin" is n/d (d > 0),   *)
(* "inf"/"ninf"/"nan" are the IEEE-754 values a JavaScript division by     *)
(* zero produces.  Rounding of binary floating point is not modelled.      *)
(*                                                                         *)
(* Time.  now is Date.now() in milliseconds.                               *)
(***************************************************************************)
EXTENDS Integers, Sequences, FiniteSets, TLC

VARIABLES
    now,                  \* Date.now()
    ticks,                \* number of clock advances so far
    calls,               \* number of top-level calls made so far
    call,                 \* the last completed call: its arguments and outcome
    prev,                 \* the call completed before `call`
    mergedForecastCache,  \* mergeForecasts.ts: Map key -> {result,timestamp,expires}
    indicatorCache,       \* indicators/index: Map key -> {result,timestamp,expires}
    strategyCache,        \* strategy/types: Map key -> {result,timestamp,expires}
    strategyLastCleanup,  \* closure variable lastCleanup of cleanupStrategyCache
    combinedResultCache,  \* runAllStrategies: Map key -> {result,timestamp,expires}
    combinedLastCleanup,  \* closure variable lastCleanup of cleanupCombinedCache
    signalCache,          \* closure Map of combineSignals: key -> {result,timestamp}
    subCache,             \* the strategies' closure Maps (pattern, rsi, ... caches)
    bt                    \* the running backtest (runBacktest's locals), or idle

vars == <<now, ticks, calls, call, prev, mergedForecastCache, indicatorCache,
          strategyCache, strategyLastCleanup, combinedResultCache,
          combinedLastCleanup, signalCache, subCache, bt>>

(***************************************************************************)
(* Bounds of the model.                                                    *)
(***************************************************************************)
MaxCalls == 2      \* top-level calls per behaviour
MaxTicks == 2      \* clock advances per behaviour
MaxDays == 2       \* forecast horizon of the merge inputs

(***************************************************************************)
(* Sequence helpers.                                                       *)
(***************************************************************************)
RECURSIVE SumSeq(_)
SumSeq(s) == IF s = <<>> THEN 0 ELSE Head(s) + SumSeq(Tail(s))

RECURSIVE FilterSeq(_, _)
\* Array.prototype.filter with the kept positions given as a set of indices
FilterSeq(s, keep) ==
    IF s = <<>> THEN <<>>
    ELSE LET n == Len(s)
             front == FilterSeq(SubSeq(s, 1, n - 1), keep)
         IN IF n \in keep THEN Append(front, s[n]) ELSE front

Max2(a, b) == IF a >= b THEN a ELSE b
Min2(a, b) == IF a <= b THEN a ELSE b
Abs(a) == IF a < 0 THEN -a ELSE a

(***************************************************************************)
(* IEEE-754 arithmetic, exact on the finite values.                        *)
(***************************************************************************)
Fin(n, d) == [k |-> "fin", n |-> n, d |-> d]
PInf == [k |-> "inf", n |-> 0, d |-> 1]
NInf == [k |-> "ninf", n |-> 0, d |-> 1]
NaN == [k |-> "nan", n |-> 0, d |-> 1]

\* a / b for two integers (JavaScript number division)
FDiv(a, b) ==
    IF b > 0 THEN Fin(a, b)
    ELSE IF b < 0 THEN Fin(-a, -b)
    ELSE IF a > 0 THEN PInf
    ELSE IF a < 0 THEN NInf
    ELSE NaN

\* v * x for an integer v and an extended number x
FMulInt(v, x) ==
    CASE x.k = "fin" -> Fin(v * x.n, x.d)
      [] x.k = "nan" -> NaN
      [] x.k = "inf" -> IF v > 0 THEN PInf ELSE IF v < 0 THEN NInf ELSE NaN
      [] x.k = "ninf" -> IF v > 0 THEN NInf ELSE IF v < 0 THEN PInf ELSE NaN

\* x + y
FAdd(x, y) ==
    CASE x.k = "nan" \/ y.k = "nan" -> NaN
      [] x.k = "fin" /\ y.k = "fin" ->
            IF x.d = y.d THEN Fin(x.n + y.n, x.d)
            ELSE Fin(x.n * y.d + y.n * x.d, x.d * y.d)
      [] x.k = "fin" -> y
      [] y.k = "fin" -> x
      [] x.k = y.k -> x
      [] OTHER -> NaN

\* isFinite(x)
IsFinite(x) == x.k = "fin"

\* equality of two finite values
FEq(x, y) == x.k = "fin" /\ y.k = "fin" /\ x.n * y.d = y.n * x.d

(***************************************************************************)
(* JavaScript Map with insertion order: a sequence of entries             *)
(* [key, result, timestamp, expires].                                      *)
(***************************************************************************)
MapHas(m, key) == \E i \in 1..Len(m) : m[i].key = key

MapGet(m, key) == m[CHOOSE i \in 1..Len(m) : m[i].key = key]

\* Map.prototype.set: an existing key keeps its position
MapSet(m, e) ==
    IF MapHas(m, e.key)
    THEN [i \in 1..Len(m) |-> IF m[i].key = e.key THEN e ELSE m[i]]
    ELSE Append(m, e)

\* for (const [key, value] of map) if (now > value.expires) map.delete(key)
DeleteExpired(m, t) == FilterSeq(m, {i \in 1..Len(m) : ~(t > m[i].expires)})

\* entries.sort((a, b) => a[1].timestamp - b[1].timestamp): position of entry
\* i in the (stable) ascending order, counted from 0
RankOldest(m, i) ==
    Cardinality({j \in 1..Len(m) :
        \/ m[j].timestamp < m[i].timestamp
        \/ (m[j].timestamp = m[i].timestamp /\ j < i)})

\* delete the (size - cap) oldest entries when the map is larger than cap
RemoveOldest(m, cap) ==
    IF Len(m) > cap
    THEN FilterSeq(m, {i \in 1..Len(m) : RankOldest(m, i) >= Len(m) - cap})
    ELSE m

(***************************************************************************)
(* The clock.  Date.now() is the same throughout one synchronous call and  *)
(* advances between calls.                                                 *)
(***************************************************************************)
StartTime == 1000000

NoCall == [op |-> "none"]

\* the closure Maps of the strategies: entries [key, result, timestamp]
NoSubCaches ==
    [patterns |-> <<>>, strength |-> <<>>, context |-> <<>>,
     reversalForecast |-> <<>>, rsi |-> <<>>, bollinger |-> <<>>,
     meanrev |-> <<>>, meanForecast |-> <<>>]

\* time passes between two calls: by one of the given numbers of milliseconds
TickBy(steps) ==
    /\ ticks < MaxTicks
    /\ \E d \in steps : now' = now + d
    /\ ticks' = ticks + 1
    /\ UNCHANGED <<calls, call, prev, mergedForecastCache, indicatorCache,
                   strategyCache, strategyLastCleanup, combinedResultCache,
                   combinedLastCleanup, signalCache, subCache, bt>>

(***************************************************************************)
(* Forecast Merge Engine (forecast/mergeForecasts).                        *)
(***************************************************************************)
MERGED_CACHE_DURATION == 5 * 60 * 1000
MERGED_MAX_CACHE_SIZE == 20

CleanupMergedForecastCache(m, t) ==
    RemoveOldest(DeleteExpired(m, t), MERGED_MAX_CACHE_SIZE)

\* (a key that leaves the number of days out)
GenerateMergedForecastCacheKeyWithoutDays(indicators, days) ==
    <<"merged_forecast",
      [i \in 1..Len(indicators) |->
          <<indicators[i].name, indicators[i].accuracy, indicators[i].weight,
            Len(indicators[i].forecast)>>]>>

\* `merged_forecast:${days}:` and
\* `${ind.name}:${ind.accuracy}:${ind.weight}:${ind.forecast.length}` per input
GenerateMergedForecastCacheKey(indicators, days) ==
    <<"merged_forecast", days,
      [i \in 1..Len(indicators) |->
          <<indicators[i].name, indicators[i].accuracy, indicators[i].weight,
            Len(indicators[i].forecast)>>]>>

GetCachedMergedForecast(m, cacheKey, t) ==
    LET cleaned == CleanupMergedForecastCache(m, t)
        found == MapHas(cleaned, cacheKey) /\ t <= MapGet(cleaned, cacheKey).expires
    IN [cache |-> cleaned,
        hit |-> found,
        result |-> IF found THEN MapGet(cleaned, cacheKey).result ELSE <<>>]

SetCachedMergedForecast(m, cacheKey, result, t) ==
    MapSet(CleanupMergedForecastCache(m, t),
           [key |-> cacheKey, result |-> result, timestamp |-> t,
            expires |-> t + MERGED_CACHE_DURATION])

\* indicator.forecast.find((f) => f.day === day): index of the first match, 0 if none
FindDay(forecast, day) ==
    IF \E i \in 1..Len(forecast) : forecast[i].day = day
    THEN CHOOSE i \in 1..Len(forecast) :
            /\ forecast[i].day = day
            /\ \A j \in 1..(i - 1) : forecast[j].day # day
    ELSE 0

\* const normalizedWeight = indicator.weight / totalWeight
NormalizedWeight(weight, totalWeight) == FDiv(weight, totalWeight)

RECURSIVE WeightedSum(_, _, _, _)
\* the accumulation of one of weightedHigh/Low/Avg/Confidence over the inputs
WeightedSum(indicators, totalWeight, day, field) ==
    IF indicators = <<>> THEN Fin(0, 1)
    ELSE LET n == Len(indicators)
             ind == indicators[n]
             rest == WeightedSum(SubSeq(indicators, 1, n - 1), totalWeight, day, field)
             i == FindDay(ind.forecast, day)
         IN IF i = 0 THEN rest
            ELSE FAdd(rest, FMulInt(ind.forecast[i][field],
                                    NormalizedWeight(ind.weight, totalWeight)))

\* contributingIndicators for one day
Contributing(indicators, day) ==
    {i \in 1..Len(indicators) : FindDay(indicators[i].forecast, day) # 0}

\* isFinite(x) ? x : 0
Valid(x) == IF IsFinite(x) THEN x ELSE Fin(0, 1)

MergedPoint(indicators, totalWeight, day) ==
    [day |-> day,
     high |-> Valid(WeightedSum(indicators, totalWeight, day, "high")),
     low |-> Valid(WeightedSum(indicators, totalWeight, day, "low")),
     avg |-> Valid(WeightedSum(indicators, totalWeight, day, "avg")),
     confidence |-> Valid(WeightedSum(indicators, totalWeight, day, "confidence")),
     indicator |-> "MERGED_AVERAGE"]

\* if (totalWeight === 0) indicators.forEach((ind) => (ind.weight = 1))
\* (weights are in hundredths: 1 is 100)
EqualWeights(indicators, totalWeight) ==
    IF totalWeight = 0
    THEN [i \in 1..Len(indicators) |-> [indicators[i] EXCEPT !.weight = 100]]
    ELSE indicators

\* mergeForecasts(indicators, days) at time t with the cache m: the returned
\* forecast, the cache afterwards and the (mutated) input array
MergeForecasts(m, indicators, days, t) ==
    LET cacheKey == GenerateMergedForecastCacheKey(indicators, days)
        totalWeight == SumSeq([i \in 1..Len(indicators) |-> indicators[i].weight])
        Merged(inds) ==
            FilterSeq([day \in 1..days |-> MergedPoint(inds, totalWeight, day)],
                      {day \in 1..days : Contributing(inds, day) # {}})
        Outcome(cached, inds, mergedForecast) ==
            IF cached.hit
            THEN [result |-> cached.result, hit |-> TRUE, cache |-> cached.cache,
                  indicators |-> indicators]
            ELSE [result |-> mergedForecast, hit |-> FALSE,
                  cache |-> SetCachedMergedForecast(cached.cache, cacheKey,
                                                    mergedForecast, t),
                  indicators |-> inds]
    IN CHOOSE r \in
          {Outcome(cached, inds, mergedForecast) :
              cached \in {GetCachedMergedForecast(m, cacheKey, t)},
              inds \in {EqualWeights(indicators, totalWeight)},
              mergedForecast \in {Merged(EqualWeights(indicators, totalWeight))}} : TRUE

RECURSIVE SetToSeq(_)
\* the elements of a set of integers in ascending order
SetToSeq(S) ==
    IF S = {} THEN <<>>
    ELSE LET m == CHOOSE x \in S : \A y \in S : y <= x
         IN Append(SetToSeq(S \ {m}), m)

\* a ForecastPoint[] of one indicator over the given days around a base price
MkForecast(name, daySet, base) ==
    LET ds == SetToSeq(daySet)
    IN [i \in 1..Len(ds) |->
           [day |-> ds[i], high |-> base + ds[i] + 5, low |-> base + ds[i] - 5,
            avg |-> base + ds[i], confidence |-> 80, indicator |-> name]]

\* an IndicatorResult
MkIndicator(name, accuracy, weight, forecast) ==
    [name |-> name, accuracy |-> accuracy, weight |-> weight, forecast |-> forecast]

\* the argument lists mergeForecasts is called with: two indicator results,
\* the first over the first k days or over the day past the horizon only,
\* the second over the whole horizon or empty; weights 0.6/0.4 or both zero
MergeInputs ==
    {<<MkIndicator("RSI", 75, w[1], MkForecast("RSI", dA, 100)),
       MkIndicator("EMA", 80, w[2], MkForecast("EMA", dB, 200))>> :
        w \in {<<60, 40>>, <<0, 0>>},
        dA \in {1..k : k \in 0..MaxDays} \cup {{MaxDays + 1}},
        dB \in {{}, 1..MaxDays}}

\* time passes: up to the merged-forecast cache's lifetime, or just past it
TickMerge == TickBy({1, MERGED_CACHE_DURATION})

\* one call of mergeForecasts(indicators, days)
MergeForecastsCall ==
    /\ calls < MaxCalls
    /\ \E indicators \in MergeInputs, days \in 1..MaxDays :
          LET r == MergeForecasts(mergedForecastCache, indicators, days, now)
          IN /\ mergedForecastCache' = r.cache
             /\ call' = [op |-> "mergeForecasts", indicators |-> indicators,
                         days |-> days, result |-> r.result, hit |-> r.hit,
                         indicatorsAfter |-> r.indicators]
    /\ calls' = calls + 1
    /\ UNCHANGED <<now, ticks, prev, indicatorCache, strategyCache,
                   strategyLastCleanup, combinedResultCache, combinedLastCleanup,
                   signalCache, subCache, bt>>

(***************************************************************************)
(* The state of a freshly started process.                                 *)
(***************************************************************************)
Init ==
    /\ now = StartTime
    /\ ticks = 0
    /\ calls = 0
    /\ call = NoCall
    /\ prev = NoCall
    /\ mergedForecastCache = <<>>
    /\ indicatorCache = <<>>
    /\ strategyCache = <<>>
    /\ strategyLastCleanup = 0
    /\ combinedResultCache = <<>>
    /\ combinedLastCleanup = 0
    /\ signalCache = <<>>
    /\ subCache = NoSubCaches
    /\ bt = [pc |-> "idle"]

NextMerge == MergeForecastsCall \/ TickMerge

SpecMerge == Init /\ [][NextMerge]_vars

(***************************************************************************)
(* Properties of mergeForecasts.                                           *)
(***************************************************************************)
\* the indices of the inputs that have a point for `day`, and sums over them
ContribWeight(indicators, day) ==
    SumSeq([i \in 1..Len(indicators) |->
        IF i \in Contributing(indicators, day) THEN indicators[i].weight ELSE 0])

ContribWeighted(indicators, day, field) ==
    SumSeq([i \in 1..Len(indicators) |->
        IF i \in Contributing(indicators, day)
        THEN indicators[i].weight
             * indicators[i].forecast[FindDay(indicators[i].forecast, day)][field]
        ELSE 0])

ContribPlain(indicators, day, field) ==
    SumSeq([i \in 1..Len(indicators) |->
        IF i \in Contributing(indicators, day)
        THEN indicators[i].forecast[FindDay(indicators[i].forecast, day)][field]
        ELSE 0])

TotalWeightOf(indicators) ==
    SumSeq([i \in 1..Len(indicators) |-> indicators[i].weight])

Fields == {"high", "low", "avg", "confidence"}

\* C1: for a computed merge of inputs of positive total weight, every merged
\* value of a day is the weighted average over the inputs that have a point
\* for that day, the weights divided by the sum of the contributing weights
\* (so a day only one input covers carries exactly that input's values).
C1_ContributingNormalised ==
    (call.op = "mergeForecasts" /\ ~call.hit
        /\ TotalWeightOf(call.indicators) > 0)
    => \A p \in 1..Len(call.result) : \A f \in Fields :
          LET pt == call.result[p]
              Wc == ContribWeight(call.indicators, pt.day)
          IN Wc > 0 => FEq(pt[f], Fin(ContribWeighted(call.indicators, pt.day, f), Wc))

\* C5: for a computed merge of inputs whose weights sum to zero, every merged
\* value of a day is the arithmetic mean of the contributing inputs' values.
C5_ZeroWeightEqualMean ==
    (call.op = "mergeForecasts" /\ ~call.hit
        /\ TotalWeightOf(call.indicators) = 0)
    => \A p \in 1..Len(call.result) : \A f \in Fields :
          LET pt == call.result[p]
              n == Cardinality(Contributing(call.indicators, pt.day))
          IN FEq(pt[f], Fin(ContribPlain(call.indicators, pt.day, f), n))

\* C15: for inputs whose weights sum to W > 0, every merged value of a day
\* equals the sum of value_i * weight_i / W over the inputs i that have a
\* point for that day, W being the sum of the weights of all inputs.
C15_DividedByTotalWeight ==
    (call.op = "mergeForecasts" /\ TotalWeightOf(call.indicators) > 0)
    => /\ \A day \in 1..call.days :
            Contributing(call.indicators, day) # {}
            => \E p \in 1..Len(call.result) : call.result[p].day = day
       /\ \A p \in 1..Len(call.result) : \A f \in Fields :
            LET pt == call.result[p]
            IN /\ Contributing(call.indicators, pt.day) # {}
               /\ FEq(pt[f], Fin(ContribWeighted(call.indicators, pt.day, f),
                                 TotalWeightOf(call.indicators)))

\* some input of the call has a forecast point for the day
HasPointFor(day) ==
    \E i \in 1..Len(call.indicators) :
        \E j \in 1..Len(call.indicators[i].forecast) :
            call.indicators[i].forecast[j].day = day

\* C23: the output of mergeForecasts(results, days) contains a point for day
\* d (1 <= d <= days) if and only if at least one input result has a forecast
\* point with day d.
C23_PointIffContributing ==
    call.op = "mergeForecasts" =>
        \A day \in 1..call.days :
            (\E p \in 1..Len(call.result) : call.result[p].day = day)
            <=> HasPointFor(day)

\* C24: mergeForecasts(results, days = N) never returns a point whose day
\* lies outside 1..N, and the days of the returned points are strictly
\* ascending, also when the result is served from the merged-forecast cache.
C24_DaysAscendingWithinHorizon ==
    call.op = "mergeForecasts" =>
        /\ \A p \in 1..Len(call.result) : call.result[p].day \in 1..call.days
        /\ \A p, q \in 1..Len(call.result) :
              p < q => call.result[p].day < call.result[q].day

\* a one-day merge served from the cache, of inputs one of which has points
\* for two days
C24_Witness ==
    /\ call.op = "mergeForecasts" /\ call.hit
    /\ call.days = 1 /\ Len(call.result) = 1
    /\ \E i \in 1..Len(call.indicators) : Len(call.indicators[i].forecast) = 2

\* C25: mergeForecasts does not modify its input results: after any call,
\* every input result's weight, accuracy and forecast points are the same as
\* before the call.
C25_InputsUnmodified ==
    call.op = "mergeForecasts" => call.indicatorsAfter = call.indicators

\* the values of the field that the inputs with a point for the day have
ContribValues(indicators, day, field) ==
    {indicators[i].forecast[FindDay(indicators[i].forecast, day)][field] :
        i \in Contributing(indicators, day)}

\* C29: for inputs with non-negative weights and positive total weight,
\* every merged value for day d lies between the minimum and the maximum of
\* the corresponding values of the results that have a point for day d.
C29_WithinContributingRange ==
    (call.op = "mergeForecasts" /\ TotalWeightOf(call.indicators) > 0
        /\ \A i \in 1..Len(call.indicators) : call.indicators[i].weight >= 0)
    => \A p \in 1..Len(call.result) : \A f \in Fields :
          LET merged == call.result[p][f]
              values == ContribValues(call.indicators, call.result[p].day, f)
          IN /\ IsFinite(merged) /\ merged.d > 0
             /\ \E lowest \in values : lowest * merged.d <= merged.n
             /\ \E highest \in values : merged.n <= highest * merged.d

(***************************************************************************)
(* Strategy Consensus Orchestrator: combineSignals (strategy/runAllStrategies). *)
(* A strategy result is [name, signal |-> [recommendation, confidenceScore,*)
(* reasons], weight]; confidences and weights in hundredths.               *)
(***************************************************************************)
SIGNAL_CACHE_DURATION == 30 * 1000

RECURSIVE Gcd(_, _)
Gcd(a, b) == IF b = 0 THEN a ELSE Gcd(b, a % b)

\* x > y for fractions of positive denominators (the common factor of the
\* denominators is divided out before multiplying)
FGt(x, y) ==
    LET g == Gcd(x.d, y.d) IN x.n * (y.d \div g) > y.n * (x.d \div g)
FMax(x, y) == IF FGt(y, x) THEN y ELSE x
FMin(x, y) == IF FGt(x, y) THEN y ELSE x

\* results.map(r => `${r.name}:${r.signal.recommendation}:${r.signal.confidenceScore}`)
SignalCacheKey(results) ==
    [i \in 1..Len(results) |->
        <<results[i].name, results[i].signal.recommendation,
          results[i].signal.confidenceScore>>]

\* results.filter((r) => r.signal.confidenceScore > 0.1)
ValidResults(results) ==
    FilterSeq(results, {i \in 1..Len(results) : results[i].signal.confidenceScore > 10})

\* const effectiveWeight = signal.confidenceScore * result.weight
EffectiveWeight(r) == r.signal.confidenceScore * r.weight

\* the sum of effectiveWeight over the valid results with one of the
\* given recommendations
WeightedScore(valid, recs) ==
    SumSeq([i \in 1..Len(valid) |->
        IF valid[i].signal.recommendation \in recs
        THEN EffectiveWeight(valid[i]) ELSE 0])

\* (a score that is not divided by the total weight)
NormalizedScoreUnscaled(score, totalWeight) == Fin(score, 1)

\* totalWeight > 0 ? score / totalWeight : 0
NormalizedScore(score, totalWeight) ==
    IF totalWeight > 0 THEN Fin(score, totalWeight) ELSE Fin(0, 1)

\* (a neutral confidence that forgets the factor 0.5)
NeutralConfidenceUnhalved(nBuy, nSell) == FMax(nBuy, nSell)

\* Math.max(normalizedBuyScore, normalizedSellScore) * 0.5
NeutralConfidence(nBuy, nSell) ==
    LET m == FMax(nBuy, nSell) IN Fin(m.n, 2 * m.d)

\* `${result.name}: ${signal.reasons[0] || "Signal detected"}` for confidence > 0.5
SignificantReasons(valid) ==
    LET sig == FilterSeq(valid,
                  {i \in 1..Len(valid) : valid[i].signal.confidenceScore > 50})
    IN [i \in 1..Len(sig) |->
          <<sig[i].name,
            IF sig[i].signal.reasons = <<>> THEN "Signal detected"
            ELSE sig[i].signal.reasons[1]>>]

CountOf(valid, rec) ==
    Cardinality({i \in 1..Len(valid) : valid[i].signal.recommendation = rec})

\* the signal combineSignals computes when its cache does not answer
ComputeCombinedSignal(results, t) ==
    LET valid == ValidResults(results)
        buy == WeightedScore(valid, {"buy"})
        sell == WeightedScore(valid, {"sell"})
        total == WeightedScore(valid, {"buy", "sell", "neutral"})
        nBuy == NormalizedScore(buy, total)
        nSell == NormalizedScore(sell, total)
        rec == IF FGt(nBuy, nSell) /\ FGt(nBuy, Fin(3, 10)) THEN "buy"
               ELSE IF FGt(nSell, nBuy) /\ FGt(nSell, Fin(3, 10)) THEN "sell"
               ELSE "neutral"
        conf == IF rec = "buy" THEN nBuy
                ELSE IF rec = "sell" THEN nSell
                ELSE NeutralConfidence(nBuy, nSell)
    IN IF valid = <<>>
       THEN [recommendation |-> "neutral",
             reasons |-> << <<"No strategies provided valid signals">> >>,
             confidenceScore |-> Fin(1, 10),
             timestamp |-> t, strategy |-> "Combined Strategy"]
       ELSE [recommendation |-> rec,
             reasons |-> << <<"Strategy consensus", CountOf(valid, "buy"),
                             CountOf(valid, "sell"), CountOf(valid, "neutral")>> >>
                         \o SignificantReasons(valid),
             confidenceScore |-> FMin(conf, Fin(1, 1)),
             timestamp |-> t, strategy |-> "Combined Strategy"]

\* combineSignals(results) at time t with its closure Map sc: the returned
\* signal, whether the Map answered, and the Map afterwards
CombineSignals(sc, results, t) ==
    LET cacheKey == SignalCacheKey(results)
        found == MapHas(sc, cacheKey)
                 /\ t - MapGet(sc, cacheKey).timestamp < SIGNAL_CACHE_DURATION
        computed == ComputeCombinedSignal(results, t)
    IN IF found
       THEN [result |-> MapGet(sc, cacheKey).result, hit |-> TRUE, cache |-> sc]
       ELSE [result |-> computed, hit |-> FALSE,
             cache |-> MapSet(sc, [key |-> cacheKey, result |-> computed,
                                   timestamp |-> t])]

\* the registry's strategies, in registration order
StrategyNames ==
    <<"Mean Reversion", "Breakout", "Golden Cross", "Momentum Divergence",
      "Candlestick Reversal", "Volatility Breakout">>

NumStrategies == 6

\* a StrategyResult as far as combineSignals reads it
MkResult(name, rec, conf, weight, reasons) ==
    [name |-> name, weight |-> weight,
     signal |-> [recommendation |-> rec, confidenceScore |-> conf,
                 reasons |-> reasons]]

\* the lists combineSignals is called with: nb buys (confidence 0.6, weight
\* wb), then ns sells (0.6, weight 0.5), the rest either neutral (0.6) or
\* buys of confidence 0.1
CombineInputs ==
    {[i \in 1..NumStrategies |->
        IF i <= nb THEN MkResult(StrategyNames[i], "buy", 60, wb, <<"up">>)
        ELSE IF i <= nb + ns THEN MkResult(StrategyNames[i], "sell", 60, 50, <<>>)
        ELSE IF low THEN MkResult(StrategyNames[i], "buy", 10, 50, <<"weak">>)
        ELSE MkResult(StrategyNames[i], "neutral", 60, 50, <<"flat">>)] :
        nb \in {0, 1, 3}, ns \in {0, 3}, wb \in {50, 90}, low \in BOOLEAN}

\* one call of combineSignals(results)
CombineSignalsCall ==
    /\ calls < MaxCalls
    /\ \E results \in CombineInputs :
          LET r == CombineSignals(signalCache, results, now)
          IN /\ signalCache' = r.cache
             /\ call' = [op |-> "combineSignals", results |-> results,
                         result |-> r.result, hit |-> r.hit]
    /\ calls' = calls + 1
    /\ UNCHANGED <<now, ticks, prev, mergedForecastCache, indicatorCache,
                   strategyCache, strategyLastCleanup, combinedResultCache,
                   combinedLastCleanup, subCache, bt>>

\* time passes: up to the signal cache's 30 seconds, or a millisecond
TickCombine == TickBy({1, SIGNAL_CACHE_DURATION})

NextCombine == CombineSignalsCall \/ TickCombine

SpecCombine == Init /\ [][NextCombine]_vars

(***************************************************************************)
(* Properties of combineSignals.                                           *)
(***************************************************************************)
\* three buys and three sells, each of confidence 0.6 and weight 0.5
ThreeBuyThreeSell(results) ==
    /\ Len(results) = 6
    /\ \A i \in 1..6 : /\ results[i].signal.confidenceScore = 60
                       /\ results[i].weight = 50
    /\ Cardinality({i \in 1..6 : results[i].signal.recommendation = "buy"}) = 3
    /\ Cardinality({i \in 1..6 : results[i].signal.recommendation = "sell"}) = 3

SideScore(results, recs) ==
    SumSeq([i \in 1..Len(results) |->
        IF results[i].signal.confidenceScore > 10
           /\ results[i].signal.recommendation \in recs
        THEN results[i].signal.confidenceScore * results[i].weight ELSE 0])

\* the recommendation the rule gives for a list of results: buy when the
\* normalised buy score exceeds the normalised sell score and 0.3, sell
\* symmetrically, neutral otherwise (scores divided by the sum over buy,
\* sell and neutral contributing results)
RuleRecommendation(results) ==
    LET buy == SideScore(results, {"buy"})
        sell == SideScore(results, {"sell"})
        total == SideScore(results, {"buy", "sell", "neutral"})
    IN IF total > 0 /\ buy > sell /\ 10 * buy > 3 * total THEN "buy"
       ELSE IF total > 0 /\ sell > buy /\ 10 * sell > 3 * total THEN "sell"
       ELSE "neutral"

MaxConsensusCalls == 3   \* calls of combineSignals per behaviour

\* the lists: a buy of Mean Reversion and a sell of Breakout (confidence
\* 0.6, weights 0.9 and 0.5 or 0.5 and 0.9) in either order, alone or with
\* a buy of Golden Cross of confidence 0.1 after or before them
ConsensusInputs ==
    LET buy(w) == MkResult(StrategyNames[1], "buy", 60, w, <<"up">>)
        sell(w) == MkResult(StrategyNames[2], "sell", 60, w, <<"down">>)
        low == MkResult(StrategyNames[3], "buy", 10, 50, <<"weak">>)
    IN UNION {{<<buy(w[1]), sell(w[2])>>, <<sell(w[2]), buy(w[1])>>,
               <<buy(w[1]), sell(w[2]), low>>, <<low, sell(w[2]), buy(w[1])>>} :
              w \in {<<90, 50>>, <<50, 90>>}}

\* one call of combineSignals(results) on one of these lists
ConsensusCall ==
    /\ calls < MaxConsensusCalls
    /\ \E results \in ConsensusInputs :
          LET r == CombineSignals(signalCache, results, now)
          IN /\ signalCache' = r.cache
             /\ call' = [op |-> "combineSignals", results |-> results,
                         result |-> r.result, hit |-> r.hit]
    /\ calls' = calls + 1
    /\ UNCHANGED <<now, ticks, prev, mergedForecastCache, indicatorCache,
                   strategyCache, strategyLastCleanup, combinedResultCache,
                   combinedLastCleanup, subCache, bt>>

NextConsensus == ConsensusCall \/ TickCombine

SpecConsensus == Init /\ [][NextConsensus]_vars

\* b is a reordering of a
IsPermutation(a, b) ==
    /\ Len(a) = Len(b)
    /\ \A x \in {a[i] : i \in 1..Len(a)} \cup {b[i] : i \in 1..Len(b)} :
          Cardinality({i \in 1..Len(a) : a[i] = x})
          = Cardinality({i \in 1..Len(b) : b[i] = x})

\* the results of confidenceScore above 0.1, in their order
AboveNoise(results) ==
    FilterSeq(results, {i \in 1..Len(results) :
                           results[i].signal.confidenceScore > 10})

\* two successive calls of combineSignals return the same recommendation
\* and confidenceScore
SameConsensus ==
    /\ call'.result.recommendation = call.result.recommendation
    /\ FEq(call'.result.confidenceScore, call.result.confidenceScore)

\* a call of combineSignals follows a call of combineSignals
SuccessiveCalls ==
    /\ call.op = "combineSignals" /\ call'.op = "combineSignals"
    /\ calls' = calls + 1

\* C21: the recommendation and confidenceScore combineSignals returns are
\* invariant under any permutation of the list of strategy results: a call
\* on a reordering of the list of the call before it returns the same
\* recommendation and confidenceScore.
C21_PermutationInvariant ==
    [][(SuccessiveCalls /\ IsPermutation(call.results, call'.results))
       => SameConsensus]_vars

\* C22: a result of confidenceScore at or below 0.1 has no influence on the
\* consensus: a call on the list of the call before it with such results
\* added or removed, a result above 0.1 remaining, returns the same
\* recommendation and confidenceScore.
C22_NoiseHasNoInfluence ==
    [][(/\ SuccessiveCalls
        /\ call.results # call'.results
        /\ AboveNoise(call.results) = AboveNoise(call'.results)
        /\ AboveNoise(call.results) # <<>>)
       => SameConsensus]_vars

(***************************************************************************)
(* Price histories.  A PricePoint is represented by its close; Null is an  *)
(* entry that is no object (reading a property of it throws a TypeError).  *)
(***************************************************************************)
PricePoint(close) == [object |-> TRUE, close |-> close]
Null == [object |-> FALSE, close |-> 0]

\* the i-th daily PricePoint (i from 1) of a history of the given shape
Price(shape, i) ==
    CASE shape = "flat" -> PricePoint(100)
      [] shape = "rising" -> PricePoint(100 + i)
      [] shape = "malformed" -> IF i = 1 THEN Null ELSE PricePoint(100)

HistoricalData(shape, n) == [i \in 1..n |-> Price(shape, i)]

\* Array.prototype.slice(start, end) for 0 <= start (indices from 0, end excluded)
Slice(a, start, end) ==
    LET e == Min2(end, Len(a))
    IN IF start >= e THEN <<>> ELSE SubSeq(a, start + 1, e)

(***************************************************************************)
(* Indicator Orchestrator (indicators/index).                              *)
(***************************************************************************)
INDICATOR_CACHE_DURATION == 2 * 60 * 1000
INDICATOR_MAX_CACHE_SIZE == 50

\* the ten indicators in the order calculateAllIndicators starts them
IndicatorNames ==
    <<"RSI", "EMA", "MACD", "SMA", "BOLLINGER", "STOCHASTIC", "VWAP", "ADX",
      "PARABOLIC_SAR", "ICHIMOKU">>

\* INDICATORS[name].weight, in hundredths
INDICATORS ==
    [RSI |-> 12, EMA |-> 15, MACD |-> 13, SMA |-> 10, BOLLINGER |-> 11,
     STOCHASTIC |-> 9, VWAP |-> 8, ADX |-> 7, PARABOLIC_SAR |-> 8, ICHIMOKU |-> 7]

\* calculateHistoricalAccuracy(indicatorName), in hundredths
AccuracyEstimates ==
    [RSI |-> 72, EMA |-> 78, MACD |-> 75, SMA |-> 70, BOLLINGER |-> 76,
     STOCHASTIC |-> 68, VWAP |-> 74, ADX |-> 66, PARABOLIC_SAR |-> 71,
     ICHIMOKU |-> 73]

\* the number of data points below which each formula throws
MinDataPoints ==
    [RSI |-> 14, EMA |-> 12, MACD |-> 26, SMA |-> 20, BOLLINGER |-> 20,
     STOCHASTIC |-> 14, VWAP |-> 20, ADX |-> 28, PARABOLIC_SAR |-> 10,
     ICHIMOKU |-> 52]

\* sort((a, b) => b[1].timestamp - a[1].timestamp): position of entry i in the
\* (stable) descending order, counted from 0
RankNewest(m, i) ==
    Cardinality({j \in 1..Len(m) :
        \/ m[j].timestamp > m[i].timestamp
        \/ (m[j].timestamp = m[i].timestamp /\ j < i)})

\* keep the cap newest entries, re-inserted newest first
KeepNewest(m, cap) ==
    IF Len(m) > cap
    THEN [k \in 1..cap |-> m[CHOOSE i \in 1..Len(m) : RankNewest(m, i) = k - 1]]
    ELSE m

CleanupIndicatorCache(m, t) ==
    KeepNewest(DeleteExpired(m, t), INDICATOR_MAX_CACHE_SIZE)

\* `${symbol}-${days}-${indicatorName}-${pricesLength}`
GenerateCacheKey(symbol, days, indicatorName, pricesLength) ==
    <<symbol, days, indicatorName, pricesLength>>

\* (a lookup that never finds anything: every result is computed afresh)
GetCachedIndicatorMiss(m, cacheKey, t) == [hit |-> FALSE, result |-> <<>>, cache |-> m]

\* getCachedIndicator: no cleanup; an expired entry under this key is deleted
GetCachedIndicator(m, cacheKey, t) ==
    LET present == MapHas(m, cacheKey)
        found == present /\ t < MapGet(m, cacheKey).expires
    IN [hit |-> found,
        result |-> IF found THEN MapGet(m, cacheKey).result ELSE <<>>,
        cache |-> IF present /\ ~found
                  THEN FilterSeq(m, {i \in 1..Len(m) : m[i].key # cacheKey})
                  ELSE m]

SetCachedIndicator(m, cacheKey, result, t) ==
    MapSet(m, [key |-> cacheKey, result |-> result, timestamp |-> t,
               expires |-> t + INDICATOR_CACHE_DURATION])

\* data.map((p) => p.close) throws when an entry is no object
ExtractThrows(priceData) == \E i \in 1..Len(priceData) : ~priceData[i].object

\* extractPriceArrays(data).closes
ExtractCloses(priceData) == [i \in 1..Len(priceData) |-> priceData[i].close]

\* The forecast a formula returns for a price series: forecastDays points
\* that depend on the series' latest closes.  The ten formulas differ in
\* their arithmetic; what matters here is that each is a function of the
\* series and needs a minimum number of points.
IndicatorForecast(indicatorName, closes, forecastDays) ==
    LET n == Len(closes)
        currentPrice == closes[n]
        trend == closes[n] - closes[n - 1]
    IN [day \in 1..forecastDays |->
           [day |-> day, high |-> currentPrice + trend * day + 5,
            low |-> currentPrice + trend * day - 5,
            avg |-> currentPrice + trend * day,
            confidence |-> 80, indicator |-> indicatorName]]

\* does the computation inside calculateIndicator's try block throw?
ComputationThrows(indicatorName, priceData) ==
    \/ ExtractThrows(priceData)
    \/ Len(priceData) < MinDataPoints[indicatorName]

\* (calculateIndicator as it would be if the catch block stored what it
\* returns)
CalculateIndicatorCachingFailure(m, indicatorName, symbol, priceData, forecastDays, t) ==
    LET cacheKey == GenerateCacheKey(symbol, forecastDays, indicatorName,
                                     Len(priceData))
        cached == GetCachedIndicator(m, cacheKey, t)
        result == [name |-> indicatorName,
                   forecast |-> IF ComputationThrows(indicatorName, priceData)
                                THEN <<>>
                                ELSE IndicatorForecast(indicatorName,
                                         ExtractCloses(priceData), forecastDays),
                   accuracy |-> IF ComputationThrows(indicatorName, priceData)
                                THEN 0 ELSE AccuracyEstimates[indicatorName],
                   weight |-> IF ComputationThrows(indicatorName, priceData)
                              THEN 0 ELSE INDICATORS[indicatorName],
                   executionTime |-> 0]
    IN IF cached.hit
       THEN [result |-> cached.result, hit |-> TRUE, threw |-> FALSE,
             cache |-> cached.cache]
       ELSE [result |-> result, hit |-> FALSE,
             threw |-> ComputationThrows(indicatorName, priceData),
             cache |-> SetCachedIndicator(cached.cache, cacheKey, result, t)]

\* calculateIndicator at time t: the result, whether it came from the
\* cache, whether the computation threw, and the cache afterwards
CalculateIndicator(m, indicatorName, symbol, priceData, forecastDays, t) ==
    LET cacheKey == GenerateCacheKey(symbol, forecastDays, indicatorName,
                                     Len(priceData))
        cached == GetCachedIndicator(m, cacheKey, t)
        result == [name |-> indicatorName,
                   forecast |-> IndicatorForecast(indicatorName,
                                                  ExtractCloses(priceData),
                                                  forecastDays),
                   accuracy |-> AccuracyEstimates[indicatorName],
                   weight |-> INDICATORS[indicatorName],
                   executionTime |-> 0]
        placeholder == [name |-> indicatorName, forecast |-> <<>>,
                        accuracy |-> 0, weight |-> 0, executionTime |-> 0]
    IN IF cached.hit
       THEN [result |-> cached.result, hit |-> TRUE, threw |-> FALSE,
             cache |-> cached.cache]
       ELSE IF ComputationThrows(indicatorName, priceData)
       THEN [result |-> placeholder, hit |-> FALSE, threw |-> TRUE,
             cache |-> cached.cache]
       ELSE [result |-> result, hit |-> FALSE, threw |-> FALSE,
             cache |-> SetCachedIndicator(cached.cache, cacheKey, result, t)]

RECURSIVE RunIndicators(_, _, _, _, _, _)
\* the first k calculateIndicator calls of calculateAllIndicators, in order:
\* their outcomes and the cache after them
RunIndicators(m, k, symbol, priceData, forecastDays, t) ==
    IF k = 0 THEN [outcomes |-> <<>>, cache |-> m]
    ELSE LET Next1(before, one) ==
                 [outcomes |-> Append(before.outcomes,
                                      [result |-> one.result, hit |-> one.hit,
                                       threw |-> one.threw]),
                  cache |-> one.cache]
         IN CHOOSE r \in
               {Next1(before, CalculateIndicator(before.cache, IndicatorNames[k],
                                                 symbol, priceData, forecastDays, t)) :
                   before \in {RunIndicators(m, k - 1, symbol, priceData,
                                             forecastDays, t)}} : TRUE

ForecastHorizons == {10, 20, 30}

\* calculateAllIndicators as it would be if a throwing formula rejected the
\* joint await (no catch inside calculateIndicator): any throw fails the call
CalculateAllIndicatorsRejecting(m, symbol, priceData, forecastDays, t) ==
    LET cleaned == CleanupIndicatorCache(m, t)
        run == RunIndicators(cleaned, Len(IndicatorNames), symbol, priceData,
                             forecastDays, t)
        results == [i \in 1..Len(run.outcomes) |-> run.outcomes[i].result]
        threw == {IndicatorNames[i] : i \in
                     {j \in 1..Len(run.outcomes) : run.outcomes[j].threw}}
    IN IF Len(priceData) < 20
       THEN [ok |-> FALSE,
             error |-> "Insufficient data for technical analysis (minimum 20 days required)",
             results |-> <<>>, threw |-> {}, hits |-> {}, cache |-> cleaned]
       ELSE IF forecastDays \notin ForecastHorizons
       THEN [ok |-> FALSE, error |-> "Forecast days must be 10, 20, or 30",
             results |-> <<>>, threw |-> {}, hits |-> {}, cache |-> cleaned]
       ELSE IF threw # {}
       THEN [ok |-> FALSE, error |-> "Technical analysis failed",
             results |-> <<>>, threw |-> threw, hits |-> {}, cache |-> run.cache]
       ELSE [ok |-> TRUE, error |-> "", results |-> results, threw |-> {},
             hits |-> {IndicatorNames[i] : i \in
                          {j \in 1..Len(run.outcomes) : run.outcomes[j].hit}},
             cache |-> run.cache]

\* calculateAllIndicators as it would be if it validated its input only
\* after the ten calculateIndicator calls
CalculateAllIndicatorsLateValidation(m, symbol, priceData, forecastDays, t) ==
    LET run == RunIndicators(CleanupIndicatorCache(m, t), Len(IndicatorNames),
                             symbol, priceData, forecastDays, t)
        results == [i \in 1..Len(run.outcomes) |-> run.outcomes[i].result]
    IN IF Len(priceData) < 20
       THEN [ok |-> FALSE,
             error |-> "Insufficient data for technical analysis (minimum 20 days required)",
             results |-> <<>>, threw |-> {}, hits |-> {}, cache |-> run.cache]
       ELSE IF forecastDays \notin ForecastHorizons
       THEN [ok |-> FALSE, error |-> "Forecast days must be 10, 20, or 30",
             results |-> <<>>, threw |-> {}, hits |-> {}, cache |-> run.cache]
       ELSE [ok |-> TRUE, error |-> "",
             results |-> FilterSeq(results, {i \in 1..Len(results) :
                                               Len(results[i].forecast) > 0}),
             threw |-> {IndicatorNames[i] : i \in
                          {j \in 1..Len(run.outcomes) : run.outcomes[j].threw}},
             hits |-> {IndicatorNames[i] : i \in
                          {j \in 1..Len(run.outcomes) : run.outcomes[j].hit}},
             cache |-> run.cache]

\* calculateAllIndicators(symbol, priceData, forecastDays) at time t: either
\* an error, or the results whose forecast is not empty; in both cases the
\* cache afterwards.  threw is the set of indicators whose computation threw.
CalculateAllIndicators(m, symbol, priceData, forecastDays, t) ==
    LET cleaned == CleanupIndicatorCache(m, t)
        run == RunIndicators(cleaned, Len(IndicatorNames), symbol, priceData,
                             forecastDays, t)
        results == [i \in 1..Len(run.outcomes) |-> run.outcomes[i].result]
        validResults ==
            FilterSeq(results, {i \in 1..Len(results) : Len(results[i].forecast) > 0})
    IN IF Len(priceData) < 20
       THEN [ok |-> FALSE,
             error |-> "Insufficient data for technical analysis (minimum 20 days required)",
             results |-> <<>>, threw |-> {}, hits |-> {}, cache |-> cleaned]
       ELSE IF forecastDays \notin ForecastHorizons
       THEN [ok |-> FALSE, error |-> "Forecast days must be 10, 20, or 30",
             results |-> <<>>, threw |-> {}, hits |-> {}, cache |-> cleaned]
       ELSE [ok |-> TRUE, error |-> "",
             results |-> validResults,
             threw |-> {IndicatorNames[i] : i \in
                          {j \in 1..Len(run.outcomes) : run.outcomes[j].threw}},
             hits |-> {IndicatorNames[i] : i \in
                          {j \in 1..Len(run.outcomes) : run.outcomes[j].hit}},
             cache |-> run.cache]

Shapes == {"flat", "rising", "malformed"}

\* the price series calculateAllIndicators is called with: below the
\* orchestrator's minimum, at it, and at the larger minimums of the formulas
SeriesLengths == {19, 20, 28, 52}

\* one call of calculateAllIndicators("BTC", priceData, forecastDays)
CalculateAllIndicatorsCall ==
    /\ calls < MaxCalls
    /\ \E shape \in Shapes, n \in SeriesLengths, forecastDays \in {10, 15} :
          LET priceData == HistoricalData(shape, n)
              r == CalculateAllIndicators(indicatorCache, "BTC", priceData,
                                          forecastDays, now)
          IN /\ indicatorCache' = r.cache
             /\ call' = [op |-> "calculateAllIndicators", shape |-> shape,
                         length |-> n, forecastDays |-> forecastDays,
                         ok |-> r.ok, error |-> r.error, results |-> r.results,
                         threw |-> r.threw, hits |-> r.hits]
    /\ calls' = calls + 1
    /\ UNCHANGED <<now, ticks, prev, mergedForecastCache, strategyCache,
                   strategyLastCleanup, combinedResultCache, combinedLastCleanup,
                   signalCache, subCache, bt>>

\* time passes: up to the indicator cache's lifetime, or a millisecond
TickIndicators == TickBy({1, INDICATOR_CACHE_DURATION})

NextIndicators == CalculateAllIndicatorsCall \/ TickIndicators

SpecIndicators == Init /\ [][NextIndicators]_vars

(***************************************************************************)
(* Properties of calculateAllIndicators.                                   *)
(***************************************************************************)
AllTen == {IndicatorNames[i] : i \in 1..Len(IndicatorNames)}

\* C4: when the series is long enough and the horizon valid but all ten
\* indicator computations throw, calculateAllIndicators fails with the
\* error "Technical analysis failed".
C4_AllFailRaises ==
    (call.op = "calculateAllIndicators" /\ call.length >= 20
        /\ call.forecastDays \in ForecastHorizons /\ call.threw = AllTen)
    => (~call.ok /\ call.error = "Technical analysis failed")

\* the positions (in starting order) of the indicators outside a set of names
Others(names) == {i \in 1..Len(IndicatorNames) : IndicatorNames[i] \notin names}

\* what calculateIndicator returns for one indicator on its own, run against
\* the cache as calculateAllIndicators finds it after its cleanup
Alone(m, indicatorName, shape, length, forecastDays, t) ==
    CalculateIndicator(CleanupIndicatorCache(m, t), indicatorName, "BTC",
                       HistoricalData(shape, length), forecastDays, t).result

\* C11: when exactly one of the ten indicator formulas throws during a
\* calculateAllIndicators call (valid length and horizon), the call does not
\* raise and returns exactly the other nine results, in starting order, each
\* equal to what calculateIndicator gives for that indicator on its own.
C11_OneFailureNineResults ==
    [][(/\ calls' = calls + 1
        /\ call'.op = "calculateAllIndicators"
        /\ call'.length >= 20
        /\ call'.forecastDays \in ForecastHorizons
        /\ Cardinality(call'.threw) = 1)
       => /\ call'.ok
          /\ Len(call'.results) = 9
          /\ call'.results =
                [k \in 1..9 |->
                    Alone(indicatorCache,
                          IndicatorNames[CHOOSE i \in Others(call'.threw) :
                              Cardinality({j \in Others(call'.threw) : j < i}) = k - 1],
                          call'.shape, call'.length, call'.forecastDays, now)]]_vars

\* a call in which only the Ichimoku formula threw and nine results came back
C11_Witness ==
    /\ call.op = "calculateAllIndicators"
    /\ call.threw = {"ICHIMOKU"}
    /\ call.ok
    /\ Len(call.results) = 9

\* C14: the indicator cache's key holds symbol, horizon, indicator name and
\* series length but nothing of the prices, so a calculateAllIndicators call
\* that finds an unexpired entry under an indicator's key returns that
\* entry's result for the indicator whatever the prices of its own series;
\* there is an execution in which that result was computed from an earlier
\* series with different prices (C14_Witness).
C14_StaleEntryServed ==
    [][(calls' = calls + 1 /\ call'.op = "calculateAllIndicators" /\ call'.ok)
       => \A i \in 1..Len(IndicatorNames) :
            LET cacheKey == GenerateCacheKey("BTC", call'.forecastDays,
                                             IndicatorNames[i], call'.length)
                cleaned == CleanupIndicatorCache(indicatorCache, now)
            IN (MapHas(cleaned, cacheKey) /\ now < MapGet(cleaned, cacheKey).expires)
               => \E k \in 1..Len(call'.results) :
                     call'.results[k] = MapGet(cleaned, cacheKey).result]_vars

\* a second call with the same symbol, horizon and series length has returned,
\* for some indicator, a cached result that differs from what the formula
\* gives for the series of this call
C14_Witness ==
    /\ call.op = "calculateAllIndicators" /\ call.ok
    /\ \E k \in 1..Len(call.results) :
          /\ call.results[k].name \in call.hits
          /\ call.results[k].forecast #
                IndicatorForecast(call.results[k].name,
                    ExtractCloses(HistoricalData(call.shape, call.length)),
                    call.forecastDays)

\* C17: a calculateAllIndicators call with a series shorter than 20 points
\* or a horizon outside {10, 20, 30} fails with the validation error of the
\* violated precondition, before any indicator is computed or looked up, and
\* adds no entry to the indicator cache (every entry of the cache after the
\* call was in it before).
C17_ValidationFirst ==
    [][(/\ calls' = calls + 1
        /\ call'.op = "calculateAllIndicators"
        /\ (call'.length < 20 \/ call'.forecastDays \notin ForecastHorizons))
       => /\ ~call'.ok
          /\ call'.error =
                (IF call'.length < 20
                 THEN "Insufficient data for technical analysis (minimum 20 days required)"
                 ELSE "Forecast days must be 10, 20, or 30")
          /\ call'.results = <<>>
          /\ call'.threw = {} /\ call'.hits = {}
          /\ \A i \in 1..Len(indicatorCache') :
                \E j \in 1..Len(indicatorCache) :
                    indicatorCache'[i] = indicatorCache[j]]_vars

\* a call with a series of 19 points has failed and the cache still holds
\* the entries of an earlier call
C17_Witness ==
    /\ call.op = "calculateAllIndicators"
    /\ call.length < 20
    /\ ~call.ok
    /\ Len(indicatorCache) > 0

\* C30: a failure placeholder (empty forecast, accuracy 0, weight 0) is never
\* stored in the indicator cache: after an indicator computation fails, the
\* next calculateAllIndicators call with the same symbol, horizon and series
\* length invokes that indicator's formula again instead of returning a
\* cached empty result.
C30_PlaceholderNeverCached ==
    [][(calls' = calls + 1 /\ call'.op = "calculateAllIndicators")
       => /\ \A i \in 1..Len(indicatorCache') :
                indicatorCache'[i].result.forecast # <<>>
          /\ (/\ call.op = "calculateAllIndicators"
              /\ call'.length = call.length
              /\ call'.forecastDays = call.forecastDays)
             => /\ call.threw \cap call'.hits = {}
                /\ \A k \in 1..Len(call'.results) :
                      call'.results[k].forecast # <<>>]_vars

\* a second call with the symbol, horizon and series length of the first:
\* the results the first call cached were served again, and the formulas
\* that had failed (they have no entry) were run again and failed again
C30_Witness ==
    /\ calls = 2
    /\ call.op = "calculateAllIndicators" /\ call.ok
    /\ call.hits # {}
    /\ call.threw # {}
    /\ \A i \in 1..Len(indicatorCache) :
          indicatorCache[i].key[3] \notin call.threw

(***************************************************************************)
(* Backtest Harness (forecast/backtest).  runBacktest is a process: the    *)
(* fetch, then one step per period, then the analysis.  The accuracy       *)
(* metrics derived from actualPrices and predictedPrices are not modelled. *)
(***************************************************************************)
MaxPeriods == 3    \* config.periods of a backtest

\* const totalDaysNeeded = historicalRange + periods * forecastDays + 30
TotalDaysNeeded(config) ==
    config.historicalRange + config.periods * config.forecastDays + 30

\* const endIndex = historicalData.length - 1 - period * config.forecastDays
EndIndex(length, period, config) == length - 1 - period * config.forecastDays

\* const startIndex = endIndex - config.historicalRange
StartIndex(length, period, config) ==
    EndIndex(length, period, config) - config.historicalRange

\* historicalData.slice(startIndex, endIndex)
TrainingData(historicalData, period, config) ==
    Slice(historicalData, StartIndex(Len(historicalData), period, config),
          EndIndex(Len(historicalData), period, config))

\* historicalData.slice(endIndex, endIndex + config.forecastDays)
ValidationData(historicalData, period, config) ==
    Slice(historicalData, EndIndex(Len(historicalData), period, config),
          EndIndex(Len(historicalData), period, config) + config.forecastDays)

\* mergedForecast.map((point) => point.avg)
PredictedPrices(mergedForecast) ==
    [i \in 1..Len(mergedForecast) |-> mergedForecast[i].avg]

\* runSingleBacktest(symbol, historicalData, period, config) at time t with
\* the indicator cache ic and the merged-forecast cache mc
RunSingleBacktest(ic, mc, symbol, historicalData, period, config, t) ==
    LET length == Len(historicalData)
        endIndex == EndIndex(length, period, config)
        startIndex == StartIndex(length, period, config)
        trainingData == TrainingData(historicalData, period, config)
        validationData == ValidationData(historicalData, period, config)
        ind == CalculateAllIndicators(ic, symbol, trainingData,
                                      config.forecastDays, t)
        merged == MergeForecasts(mc, ind.results, config.forecastDays, t)
    IN IF startIndex < 0
       THEN [ok |-> FALSE, error |-> "Insufficient data for period",
             indicatorCache |-> ic, mergedCache |-> mc]
       ELSE IF \/ Len(trainingData) < config.historicalRange
               \/ Len(validationData) < config.forecastDays
       THEN [ok |-> FALSE, error |-> "Insufficient data for complete backtest period",
             indicatorCache |-> ic, mergedCache |-> mc]
       ELSE IF ~ind.ok
       THEN [ok |-> FALSE, error |-> ind.error,
             indicatorCache |-> ind.cache, mergedCache |-> mc]
       ELSE [ok |-> TRUE, error |-> "",
             indicatorCache |-> ind.cache, mergedCache |-> merged.cache,
             result |-> [period |-> period + 1,
                         startIndex |-> startIndex, endIndex |-> endIndex,
                         trainingLength |-> Len(trainingData),
                         validationLength |-> Len(validationData),
                         actualPrices |-> ExtractCloses(validationData),
                         predictedPrices |-> PredictedPrices(merged.result),
                         indicators |-> [i \in 1..Len(ind.results) |->
                                            ind.results[i].name]]]

\* the configurations a backtest is started with: 1..MaxPeriods periods of a
\* 10-day horizon over a 20-day range, and one with a horizon that
\* calculateAllIndicators rejects
BacktestConfigs ==
    [periods : 1..MaxPeriods, forecastDays : {10}, historicalRange : {20}]
    \cup [periods : {1}, forecastDays : {15}, historicalRange : {20}]

\* runBacktest up to its loop: the configuration is read and the history
\* fetched; the provider answers with the days asked for, with fewer, or
\* with a failure
StartBacktest ==
    /\ calls < MaxCalls
    /\ bt.pc \in {"idle", "done"}
    /\ \E config \in BacktestConfigs, shape \in {"flat", "rising"},
          answer \in {"all", "fewer", "failure"} :
          bt' = IF answer = "failure"
                THEN [pc |-> "done", ok |-> FALSE, config |-> config,
                      error |-> "Backtest failed: Failed to fetch historical data",
                      shape |-> shape, length |-> 0, period |-> 0,
                      results |-> <<>>, skipped |-> <<>>, totalPeriods |-> 0]
                ELSE [pc |-> "loop", ok |-> TRUE, config |-> config, error |-> "",
                      shape |-> shape,
                      length |-> IF answer = "all" THEN TotalDaysNeeded(config)
                                 ELSE TotalDaysNeeded(config) - 30,
                      period |-> 0, results |-> <<>>, skipped |-> <<>>,
                      totalPeriods |-> 0]
    /\ calls' = calls + 1
    /\ call' = [op |-> "runBacktest"]
    /\ UNCHANGED <<now, ticks, prev, mergedForecastCache, indicatorCache,
                   strategyCache, strategyLastCleanup, combinedResultCache,
                   combinedLastCleanup, signalCache, subCache>>

\* one iteration of the period loop: runSingleBacktest inside its try/catch
BacktestPeriod ==
    /\ bt.pc = "loop"
    /\ bt.period < bt.config.periods
    /\ LET r == RunSingleBacktest(indicatorCache, mergedForecastCache, "BTC",
                                  HistoricalData(bt.shape, bt.length),
                                  bt.period, bt.config, now)
       IN /\ indicatorCache' = r.indicatorCache
          /\ mergedForecastCache' = r.mergedCache
          /\ bt' = IF r.ok
                   THEN [bt EXCEPT !.period = @ + 1,
                                   !.results = Append(@, r.result)]
                   ELSE [bt EXCEPT !.period = @ + 1,
                                   !.skipped = Append(@, [period |-> bt.period + 1,
                                                          error |-> r.error])]
    /\ UNCHANGED <<now, ticks, calls, call, prev, strategyCache,
                   strategyLastCleanup, combinedResultCache, combinedLastCleanup,
                   signalCache, subCache>>

\* (an analysis that reports the periods asked for, not those that
\* succeeded)
AnalyzeBacktestResultsOfConfig(results, config) ==
    IF Len(results) = 0
    THEN [ok |-> FALSE, error |-> "No successful backtest results to analyze",
          totalPeriods |-> 0]
    ELSE [ok |-> TRUE, error |-> "", totalPeriods |-> config.periods]

\* analyzeBacktestResults(symbol, results, config, ...): throws on no
\* results; of the analysis, totalPeriods
AnalyzeBacktestResults(results, config) ==
    IF Len(results) = 0
    THEN [ok |-> FALSE, error |-> "No successful backtest results to analyze",
          totalPeriods |-> 0]
    ELSE [ok |-> TRUE, error |-> "", totalPeriods |-> Len(results)]

\* after the loop: analyzeBacktestResults; what it throws is rethrown by the
\* outer catch as "Backtest failed: ..."
AnalyzeBacktest ==
    /\ bt.pc = "loop"
    /\ bt.period = bt.config.periods
    /\ LET analysis == AnalyzeBacktestResults(bt.results, bt.config)
       IN bt' = IF analysis.ok
                THEN [bt EXCEPT !.pc = "done",
                                !.totalPeriods = analysis.totalPeriods]
                ELSE [bt EXCEPT !.pc = "done", !.ok = FALSE,
                                !.error = "Backtest failed: " \o analysis.error]
    /\ UNCHANGED <<now, ticks, calls, call, prev, mergedForecastCache,
                   indicatorCache, strategyCache, strategyLastCleanup,
                   combinedResultCache, combinedLastCleanup, signalCache, subCache>>

\* time passes between two backtests (the periods of one backtest run back
\* to back, well within the caches' lifetimes): up to the lifetime of the
\* indicator cache or of the merged-forecast cache
TickBacktest ==
    /\ bt.pc # "loop"
    /\ TickBy({INDICATOR_CACHE_DURATION, MERGED_CACHE_DURATION})

NextBacktest == StartBacktest \/ BacktestPeriod \/ AnalyzeBacktest \/ TickBacktest

SpecBacktest == Init /\ [][NextBacktest]_vars

(***************************************************************************)
(* Properties of runBacktest.                                              *)
(***************************************************************************)
\* the result recorded for period p (from 0), if its iteration succeeded
HasResult(p) == \E i \in 1..Len(bt.results) : bt.results[i].period = p + 1
ResultOf(p) == bt.results[CHOOSE i \in 1..Len(bt.results) :
                              bt.results[i].period = p + 1]

\* the predicted prices of a period computed from its own training slice,
\* with nothing cached
FreshPrediction(p) ==
    LET training == TrainingData(HistoricalData(bt.shape, bt.length), p, bt.config)
        ind == CalculateAllIndicators(<<>>, "BTC", training,
                                      bt.config.forecastDays, now)
    IN PredictedPrices(MergeForecasts(<<>>, ind.results,
                                      bt.config.forecastDays, now).result)

\* C3: the predicted prices of every completed period are the merge of the
\* indicator forecasts computed from that period's own training slice.
C3_OwnTrainingSlice ==
    bt.pc \in {"loop", "done"}
    => \A p \in 0..(bt.period - 1) :
          HasResult(p) => ResultOf(p).predictedPrices = FreshPrediction(p)

\* C7: when the provider returned historicalRange + periods * forecastDays
\* + 30 points (and the configuration is one calculateAllIndicators
\* accepts), every period iterated so far got a training slice of exactly
\* historicalRange points and a validation slice of exactly forecastDays
\* points that starts where the training slice ends; none was skipped.
C7_EveryPeriodSliced ==
    (bt.pc \in {"loop", "done"} /\ bt.length = TotalDaysNeeded(bt.config)
        /\ bt.config.forecastDays \in ForecastHorizons)
    => \A p \in 0..(bt.period - 1) :
          /\ HasResult(p)
          /\ ResultOf(p).trainingLength = bt.config.historicalRange
          /\ ResultOf(p).validationLength = bt.config.forecastDays
          /\ ResultOf(p).startIndex + ResultOf(p).trainingLength = ResultOf(p).endIndex

\* runSingleBacktest of period p (from 0) of the running backtest returns
Succeeds(p) ==
    RunSingleBacktest(<<>>, <<>>, "BTC", HistoricalData(bt.shape, bt.length),
                      p, bt.config, now).ok

\* C20: once the history is fetched, every period of the loop is iterated
\* whether or not earlier ones threw (a period that throws is recorded as
\* skipped, one that returns as a result); the finished backtest has failed
\* exactly when no period succeeded, and otherwise its analysis has
\* totalPeriods equal to the number of periods that succeeded.
C20_FailsOnlyWithoutResults ==
    (bt.pc = "done"
        /\ bt.error # "Backtest failed: Failed to fetch historical data")
    => LET succeeded == {p \in 0..(bt.config.periods - 1) : Succeeds(p)}
       IN /\ bt.period = bt.config.periods
          /\ \A p \in 0..(bt.config.periods - 1) :
                /\ HasResult(p) <=> p \in succeeded
                /\ (\E i \in 1..Len(bt.skipped) : bt.skipped[i].period = p + 1)
                       <=> p \notin succeeded
          /\ bt.ok <=> succeeded # {}
          /\ ~bt.ok => bt.error =
                 "Backtest failed: No successful backtest results to analyze"
          /\ bt.ok => bt.totalPeriods = Cardinality(succeeded)

\* a backtest has returned an analysis of two periods after its first
\* period was skipped
C20_Witness ==
    /\ bt.pc = "done"
    /\ bt.ok
    /\ Len(bt.skipped) > 0
    /\ bt.skipped[1].period = 1
    /\ bt.totalPeriods = 2
    /\ Len(bt.results) = 2

(***************************************************************************)
(* The strategy cache (strategy/types) and the combined-result cache       *)
(* (strategy/runAllStrategies).  Their cleanup is a closure that remembers *)
(* when it last ran and returns at once within 30 seconds of that.         *)
(***************************************************************************)
STRATEGY_CACHE_DURATION == 3 * 60 * 1000
STRATEGY_MAX_CACHE_SIZE == 30
COMBINED_CACHE_DURATION == 2 * 60 * 1000
MAX_COMBINED_CACHE_SIZE == 10
CLEANUP_INTERVAL == 30 * 1000

\* (a strategy-cache cleanup without the 30-second throttle)
CleanupStrategyCacheUnthrottled(m, lastCleanup, t) ==
    [cache |-> RemoveOldest(DeleteExpired(m, t), STRATEGY_MAX_CACHE_SIZE),
     lastCleanup |-> t]

CleanupStrategyCache(m, lastCleanup, t) ==
    IF t - lastCleanup < CLEANUP_INTERVAL
    THEN [cache |-> m, lastCleanup |-> lastCleanup]
    ELSE [cache |-> RemoveOldest(DeleteExpired(m, t), STRATEGY_MAX_CACHE_SIZE),
          lastCleanup |-> t]

GetCachedStrategyResult(m, lastCleanup, cacheKey, t) ==
    LET c == CleanupStrategyCache(m, lastCleanup, t)
        found == MapHas(c.cache, cacheKey) /\ t < MapGet(c.cache, cacheKey).expires
    IN [cache |-> c.cache, lastCleanup |-> c.lastCleanup, hit |-> found,
        result |-> IF found THEN MapGet(c.cache, cacheKey).result ELSE <<>>]

SetCachedStrategyResult(m, lastCleanup, cacheKey, result, t) ==
    LET c == CleanupStrategyCache(m, lastCleanup, t)
    IN [cache |-> MapSet(c.cache, [key |-> cacheKey, result |-> result,
                                   timestamp |-> t,
                                   expires |-> t + STRATEGY_CACHE_DURATION]),
        lastCleanup |-> c.lastCleanup]

CleanupCombinedCache(m, lastCleanup, t) ==
    IF t - lastCleanup < CLEANUP_INTERVAL
    THEN [cache |-> m, lastCleanup |-> lastCleanup]
    ELSE [cache |-> RemoveOldest(DeleteExpired(m, t), MAX_COMBINED_CACHE_SIZE),
          lastCleanup |-> t]

GetCachedCombinedResult(m, lastCleanup, cacheKey, t) ==
    LET c == CleanupCombinedCache(m, lastCleanup, t)
        found == MapHas(c.cache, cacheKey) /\ t < MapGet(c.cache, cacheKey).expires
    IN [cache |-> c.cache, lastCleanup |-> c.lastCleanup, hit |-> found,
        result |-> IF found THEN MapGet(c.cache, cacheKey).result ELSE <<>>]

SetCachedCombinedResult(m, lastCleanup, cacheKey, result, t) ==
    LET c == CleanupCombinedCache(m, lastCleanup, t)
    IN [cache |-> MapSet(c.cache, [key |-> cacheKey, result |-> result,
                                   timestamp |-> t,
                                   expires |-> t + COMBINED_CACHE_DURATION]),
        lastCleanup |-> c.lastCleanup]

(***************************************************************************)
(* The caches' entry points, step by step.  A behaviour exercises one of   *)
(* the four caches: a get for some key and, after a miss, the set of the   *)
(* value computed for that key; the indicator cache's get and set are      *)
(* preceded by the cleanup that calculateAllIndicators starts with.  The   *)
(* cached value itself plays no part and is represented by its key.        *)
(***************************************************************************)
MaxKeys == 2        \* distinct cache keys
MaxCacheOps == 4    \* cache steps per behaviour

\* the record of a cache step
CacheStep(op, cache, key, hit) ==
    [op |-> op, cache |-> cache, key |-> key, hit |-> hit, at |-> now]

\* may the next step be a get on this cache / the set that follows a miss?
MayGet(cache) ==
    calls < MaxCacheOps /\ (IF call.op = "none" THEN TRUE ELSE call.cache = cache)
MaySet(cache) ==
    calls < MaxCacheOps /\ call.op = "get" /\ call.cache = cache /\ ~call.hit

MergedGetStep ==
    /\ MayGet("merged")
    /\ \E key \in 1..MaxKeys :
          LET r == GetCachedMergedForecast(mergedForecastCache, key, now)
          IN /\ mergedForecastCache' = r.cache
             /\ call' = CacheStep("get", "merged", key, r.hit)
    /\ calls' = calls + 1
    /\ UNCHANGED <<now, ticks, prev, indicatorCache, strategyCache,
                   strategyLastCleanup, combinedResultCache, combinedLastCleanup,
                   signalCache, subCache, bt>>

MergedSetStep ==
    /\ MaySet("merged")
    /\ mergedForecastCache' =
          SetCachedMergedForecast(mergedForecastCache, call.key, call.key, now)
    /\ call' = CacheStep("set", "merged", call.key, FALSE)
    /\ calls' = calls + 1
    /\ UNCHANGED <<now, ticks, prev, indicatorCache, strategyCache,
                   strategyLastCleanup, combinedResultCache, combinedLastCleanup,
                   signalCache, subCache, bt>>

StrategyGetStep ==
    /\ MayGet("strategy")
    /\ \E key \in 1..MaxKeys :
          LET r == GetCachedStrategyResult(strategyCache, strategyLastCleanup,
                                           key, now)
          IN /\ strategyCache' = r.cache
             /\ strategyLastCleanup' = r.lastCleanup
             /\ call' = CacheStep("get", "strategy", key, r.hit)
    /\ calls' = calls + 1
    /\ UNCHANGED <<now, ticks, prev, mergedForecastCache, indicatorCache,
                   combinedResultCache, combinedLastCleanup, signalCache,
                   subCache, bt>>

StrategySetStep ==
    /\ MaySet("strategy")
    /\ LET r == SetCachedStrategyResult(strategyCache, strategyLastCleanup,
                                        call.key, call.key, now)
       IN /\ strategyCache' = r.cache
          /\ strategyLastCleanup' = r.lastCleanup
    /\ call' = CacheStep("set", "strategy", call.key, FALSE)
    /\ calls' = calls + 1
    /\ UNCHANGED <<now, ticks, prev, mergedForecastCache, indicatorCache,
                   combinedResultCache, combinedLastCleanup, signalCache,
                   subCache, bt>>

CombinedGetStep ==
    /\ MayGet("combined")
    /\ \E key \in 1..MaxKeys :
          LET r == GetCachedCombinedResult(combinedResultCache,
                                           combinedLastCleanup, key, now)
          IN /\ combinedResultCache' = r.cache
             /\ combinedLastCleanup' = r.lastCleanup
             /\ call' = CacheStep("get", "combined", key, r.hit)
    /\ calls' = calls + 1
    /\ UNCHANGED <<now, ticks, prev, mergedForecastCache, indicatorCache,
                   strategyCache, strategyLastCleanup, signalCache, subCache, bt>>

CombinedSetStep ==
    /\ MaySet("combined")
    /\ LET r == SetCachedCombinedResult(combinedResultCache, combinedLastCleanup,
                                        call.key, call.key, now)
       IN /\ combinedResultCache' = r.cache
          /\ combinedLastCleanup' = r.lastCleanup
    /\ call' = CacheStep("set", "combined", call.key, FALSE)
    /\ calls' = calls + 1
    /\ UNCHANGED <<now, ticks, prev, mergedForecastCache, indicatorCache,
                   strategyCache, strategyLastCleanup, signalCache, subCache, bt>>

\* calculateAllIndicators begins: cleanupIndicatorCache()
IndicatorCleanupStep ==
    /\ MayGet("indicator")
    /\ indicatorCache' = CleanupIndicatorCache(indicatorCache, now)
    /\ call' = CacheStep("cleanup", "indicator", 0, FALSE)
    /\ calls' = calls + 1
    /\ UNCHANGED <<now, ticks, prev, mergedForecastCache, strategyCache,
                   strategyLastCleanup, combinedResultCache, combinedLastCleanup,
                   signalCache, subCache, bt>>

\* a calculateIndicator of the call that just cleaned up: getCachedIndicator
IndicatorGetStep ==
    /\ calls < MaxCacheOps
    /\ call.op \in {"cleanup", "get"} /\ call.cache = "indicator" /\ call.at = now
    /\ \E key \in 1..MaxKeys :
          LET r == GetCachedIndicator(indicatorCache, key, now)
          IN /\ indicatorCache' = r.cache
             /\ call' = CacheStep("get", "indicator", key, r.hit)
    /\ calls' = calls + 1
    /\ UNCHANGED <<now, ticks, prev, mergedForecastCache, strategyCache,
                   strategyLastCleanup, combinedResultCache, combinedLastCleanup,
                   signalCache, subCache, bt>>

IndicatorSetStep ==
    /\ MaySet("indicator")
    /\ indicatorCache' = SetCachedIndicator(indicatorCache, call.key, call.key, now)
    /\ call' = CacheStep("set", "indicator", call.key, FALSE)
    /\ calls' = calls + 1
    /\ UNCHANGED <<now, ticks, prev, mergedForecastCache, strategyCache,
                   strategyLastCleanup, combinedResultCache, combinedLastCleanup,
                   signalCache, subCache, bt>>

\* time passes: a millisecond, the cleanup interval, or a cache lifetime
TickCache ==
    TickBy({1, CLEANUP_INTERVAL, COMBINED_CACHE_DURATION, STRATEGY_CACHE_DURATION,
            MERGED_CACHE_DURATION})

NextCache ==
    \/ MergedGetStep \/ MergedSetStep
    \/ StrategyGetStep \/ StrategySetStep
    \/ CombinedGetStep \/ CombinedSetStep
    \/ IndicatorCleanupStep \/ IndicatorGetStep \/ IndicatorSetStep
    \/ TickCache

SpecCache == Init /\ [][NextCache]_vars

(***************************************************************************)
(* Properties of the caches' entry points.                                 *)
(***************************************************************************)
CacheOf(cache) ==
    CASE cache = "merged" -> mergedForecastCache
      [] cache = "strategy" -> strategyCache
      [] cache = "combined" -> combinedResultCache
      [] cache = "indicator" -> indicatorCache

\* no entry of the map is expired at time t
NoExpired(m, t) == \A i \in 1..Len(m) : ~(t > m[i].expires)

\* every entry of m is still in m2, except the one under the given key
Kept(m, m2, key) ==
    \A i \in 1..Len(m) :
        m[i].key = key \/ \E j \in 1..Len(m2) : m2[j] = m[i]

\* C8 as stated: every get and every set of each of the four caches runs the
\* cache's eviction, so that when the get or set completes the cache holds
\* no expired entry.
C8_EvictionOnEveryAccess ==
    call.op \in {"get", "set"} => NoExpired(CacheOf(call.cache), call.at)

\* the key a step replaces or removes: that of a set, that of a get of the
\* indicator cache; 0 (no key) otherwise
TouchedKey(step) ==
    IF step.op = "set" \/ (step.op = "get" /\ step.cache = "indicator")
    THEN step.key ELSE 0

\* what a get or set of a throttled cache does to it
ThrottledStep(m, m2, last, last2, step) ==
    IF now - last >= CLEANUP_INTERVAL
    THEN last2 = now /\ NoExpired(m2, now)
    ELSE last2 = last /\ Kept(m, m2, TouchedKey(step))

\* C8 amended: a get or set of the merged-forecast cache always evicts the
\* expired entries.  A get or set of the strategy cache or of the
\* combined-result cache evicts them only when at least 30 seconds have
\* passed since that cache's eviction last ran; otherwise it evicts nothing
\* and every entry, expired or not, stays.  A get or set of the indicator
\* cache runs no eviction: a get removes at most the entry it looked up, a
\* set removes nothing (the eviction runs once at the start of
\* calculateAllIndicators).
C8_EvictionAsCoded ==
    [][(calls' = calls + 1 /\ call'.op \in {"get", "set"}) =>
        CASE call'.cache = "merged" ->
                NoExpired(mergedForecastCache', now)
          [] call'.cache = "strategy" ->
                ThrottledStep(strategyCache, strategyCache', strategyLastCleanup,
                              strategyLastCleanup', call')
          [] call'.cache = "combined" ->
                ThrottledStep(combinedResultCache, combinedResultCache',
                              combinedLastCleanup, combinedLastCleanup', call')
          [] call'.cache = "indicator" ->
                Kept(indicatorCache, indicatorCache', TouchedKey(call'))]_vars

\* a get of the strategy cache has completed within 30 seconds of the last
\* eviction and has left an expired entry in the cache
C8_Witness ==
    /\ call.op = "get" /\ call.cache = "strategy"
    /\ strategyLastCleanup > 0
    /\ call.at - strategyLastCleanup < CLEANUP_INTERVAL
    /\ ~NoExpired(strategyCache, call.at)

\* C13: a cache lookup returns a stored entry only while now < expires for
\* that entry: whenever a get of the indicator, strategy, merged-forecast or
\* combined-result cache is a hit, the entry under the key expires later
\* than the time of the get (at any time with now >= expires it is a miss).
C13_HitOnlyBeforeExpiry ==
    (call.op = "get" /\ call.hit) =>
        \E i \in 1..Len(CacheOf(call.cache)) :
            /\ CacheOf(call.cache)[i].key = call.key
            /\ call.at < CacheOf(call.cache)[i].expires

(***************************************************************************)
(* The strategies (strategy/meanReversionStrategy,                         *)
(* strategy/candlestickReversalStrategy) and the helpers of strategy/types.*)
(*                                                                         *)
(* Numbers of this part.  The prices of the input forecast points are      *)
(* positive integers, their confidences are in hundredths, accuracy and    *)
(* weight of an input IndicatorResult are in thousandths, sensitivity is   *)
(* in hundredths.  Every computed number (confidenceScore, accuracy,       *)
(* weight, forecast values) is an exact rational in lowest terms, so equal *)
(* numbers are equal records.  The reasons are the message texts without   *)
(* the numbers the code interpolates into them.                            *)
(***************************************************************************)

\* n/d (d > 0) in lowest terms
Q(n, d) == LET g == Gcd(Abs(n), d) IN Fin(n \div g, d \div g)

\* (common factors are divided out before multiplying, to keep the
\* intermediate integers small)
QAdd(x, y) ==
    LET g == Gcd(x.d, y.d)
    IN Q(x.n * (y.d \div g) + y.n * (x.d \div g), (x.d \div g) * y.d)
QSub(x, y) ==
    LET g == Gcd(x.d, y.d)
    IN Q(x.n * (y.d \div g) - y.n * (x.d \div g), (x.d \div g) * y.d)
QMul(x, y) ==
    LET g == Gcd(Abs(x.n), y.d)
        h == Gcd(Abs(y.n), x.d)
    IN Q((x.n \div g) * (y.n \div h), (x.d \div h) * (y.d \div g))
\* x / y for y > 0
QDiv(x, y) == QMul(x, Fin(y.d, y.n))

\* Number.prototype.toFixed(2) of a number given in thousandths: the number
\* rounded to hundredths
ToFixed2(x) == (x + 5) \div 10

\* name.toLowerCase() of the indicator names
ToLowerCase(name) ==
    CASE name = "RSI" -> "rsi"
      [] name = "EMA" -> "ema"
      [] name = "SMA" -> "sma"
      [] name = "BOLLINGER" -> "bollinger"
      [] name = "VWAP" -> "vwap"
      [] name = "MACD" -> "macd"
      [] name = "STOCHASTIC" -> "stochastic"
      [] name = "ADX" -> "adx"
      [] OTHER -> "other"

\* indicators.find((ind) => ind.name.toLowerCase().includes(part)): the
\* first match as a one-element sequence, <<>> for undefined (none of the
\* lower-cased names contains another's search string)
FindIndicator(indicators, part) ==
    LET hits == {i \in 1..Len(indicators) : ToLowerCase(indicators[i].name) = part}
    IN IF hits = {} THEN <<>>
       ELSE <<indicators[CHOOSE i \in hits : \A j \in hits : i <= j]>>

\* a || b on optional indicators
OrElse(a, b) == IF a # <<>> THEN a ELSE b

\* calculateIndicatorSignature(indicators)
CalculateIndicatorSignature(indicators) ==
    [i \in 1..Len(indicators) |->
        <<indicators[i].name, ToFixed2(indicators[i].accuracy),
          ToFixed2(indicators[i].weight), Len(indicators[i].forecast)>>]

\* generateStrategyCacheKey(strategyName, config, indicatorsSignature); the
\* configurations of the model have no falsy field, so no "default" appears
GenerateStrategyCacheKey(strategyName, config, indicatorsSignature) ==
    <<"strategy", strategyName, config.symbol, config.forecastDays,
      config.lookbackPeriod, config.sensitivity, config.riskLevel,
      indicatorsSignature>>

\* forecasts.map((f) => f.avg)
Avgs(forecasts) == [i \in 1..Len(forecasts) |-> forecasts[i].avg]

\* calculateAveragePrice(forecasts)
CalculateAveragePrice(forecasts) ==
    IF Len(forecasts) = 0 THEN Q(0, 1)
    ELSE Q(SumSeq(Avgs(forecasts)), Len(forecasts))

\* calculateTrend(forecasts); change = (secondAvg - firstAvg) / firstAvg is
\* +-Infinity or NaN when firstAvg is 0
CalculateTrend(forecasts) ==
    IF Len(forecasts) < 2 THEN "neutral"
    ELSE LET half == Len(forecasts) \div 2
             firstAvg == CalculateAveragePrice(SubSeq(forecasts, 1, half))
             secondAvg == CalculateAveragePrice(
                              SubSeq(forecasts, half + 1, Len(forecasts)))
             diff == QSub(secondAvg, firstAvg)
         IN IF firstAvg.n = 0
            THEN IF diff.n > 0 THEN "bullish"
                 ELSE IF diff.n < 0 THEN "bearish" ELSE "neutral"
            ELSE LET change == QDiv(diff, firstAvg)
                 IN IF FGt(change, Q(2, 100)) THEN "bullish"
                    ELSE IF FGt(Q(-2, 100), change) THEN "bearish"
                    ELSE "neutral"

\* calculateVolatility(forecasts) squared: variance / mean^2 (the code
\* returns the square root of it; it is only ever compared with 0.02)
CalculateVolatilitySquared(forecasts) ==
    IF Len(forecasts) < 2 THEN Q(0, 1)
    ELSE LET prices == Avgs(forecasts)
             n == Len(prices)
             sum == SumSeq(prices)
             squares == SumSeq([i \in 1..n |-> prices[i] * prices[i]])
         IN Q(n * squares - sum * sum, sum * sum)

\* 0.02 squared
VolatilityThresholdSquared == Q(4, 10000)

\* cached && Date.now() - cached.timestamp < ttl
SubCacheHit(m, key, ttl, t) ==
    MapHas(m, key) /\ t - MapGet(m, key).timestamp < ttl

\* cache.set(cacheKey, {result, timestamp: Date.now()})
SubCacheSet(m, key, result, t) ==
    MapSet(m, [key |-> key, result |-> result, timestamp |-> t])

\* the lifetime of the analysis caches and of the forecast caches
ANALYSIS_CACHE_DURATION == 60000
FORECAST_CACHE_DURATION == 120000

(***************************************************************************)
(* CandlestickReversalStrategy.                                            *)
(***************************************************************************)
CANDLESTICK_NAME == "Candlestick Reversal"

\* a recognised pattern; confidence in hundredths, day the index i of the
\* candle in priceData (counted from 0)
Pattern(name, type, confidence, day) ==
    [name |-> name, type |-> type, confidence |-> confidence, day |-> day]

\* determineDojiBias(current, previous, prev2)
DetermineDojiBias(current, previous, prev2) ==
    IF current.avg > prev2.avg THEN "bearish" ELSE "bullish"

\* recognizeStarPattern(candles), with the day the caller sets; <<>> is null.
\* firstBodySize compares candles[0] with itself (first is candles[0])
RecognizeStarPattern(candles, day) ==
    IF Len(candles) < 3 THEN <<>>
    ELSE LET first == candles[1]
             star == candles[2]
             third == candles[3]
             starBodySize == Abs(star.avg - first.avg)
             firstBodySize ==
                 Abs(first.avg -
                     (IF candles[1].avg # 0 THEN candles[1].avg ELSE first.avg))
             thirdBodySize == Abs(third.avg - star.avg)
         IN IF 2 * starBodySize < firstBodySize /\ 2 * starBodySize < thirdBodySize
            THEN IF first.avg > star.avg /\ third.avg > star.avg
                    /\ third.avg > first.avg
                 THEN <<Pattern("Morning Star", "bullish", 85, day)>>
                 ELSE IF first.avg < star.avg /\ third.avg < star.avg
                         /\ third.avg < first.avg
                 THEN <<Pattern("Evening Star", "bearish", 85, day)>>
                 ELSE <<>>
            ELSE <<>>

\* the patterns one iteration of recognizePatterns' loop pushes, in order;
\* i is the JavaScript index, so priceData[i] of the code is priceData[i + 1]
PatternsAt(priceData, i) ==
    LET current == priceData[i + 1]
        previous == priceData[i]
        prev2 == priceData[i - 1]
        bodySize == Abs(current.avg - previous.avg)
        upperShadow == current.high - Max2(current.avg, previous.avg)
        lowerShadow == Min2(current.avg, previous.avg) - current.low
        totalRange == current.high - current.low
        \* Math.abs(previous.avg - priceData[i - 2]?.avg || previous.avg)
        prevDiff == previous.avg - prev2.avg
        prevBodySize == Abs(IF prevDiff # 0 THEN prevDiff ELSE previous.avg)
        doji == IF 10 * bodySize < totalRange /\ totalRange > 0
                THEN <<Pattern("Doji", DetermineDojiBias(current, previous, prev2),
                               60, i)>>
                ELSE <<>>
        hammer == IF lowerShadow > bodySize * 2 /\ 2 * upperShadow < bodySize
                  THEN <<Pattern("Hammer", "bullish", 70, i)>> ELSE <<>>
        shootingStar == IF upperShadow > bodySize * 2 /\ 2 * lowerShadow < bodySize
                        THEN <<Pattern("Shooting Star", "bearish", 70, i)>>
                        ELSE <<>>
        bullishEngulfing ==
            IF current.avg > previous.avg /\ 5 * bodySize > 6 * prevBodySize
            THEN <<Pattern("Bullish Engulfing", "bullish", 80, i)>> ELSE <<>>
        bearishEngulfing ==
            IF current.avg < previous.avg /\ 5 * bodySize > 6 * prevBodySize
            THEN <<Pattern("Bearish Engulfing", "bearish", 80, i)>> ELSE <<>>
        star == RecognizeStarPattern(SubSeq(priceData, i - 1, i + 1), i)
    IN doji \o hammer \o shootingStar \o bullishEngulfing \o bearishEngulfing
       \o star

RECURSIVE PatternsUpTo(_, _)
\* for (let i = 2; i < priceData.length; i++) ..., up to index i
PatternsUpTo(priceData, i) ==
    IF i < 2 THEN <<>>
    ELSE PatternsUpTo(priceData, i - 1) \o PatternsAt(priceData, i)

\* recognizePatterns(priceData, lookbackPeriod) on its closure Map m
RecognizePatterns(m, priceData, lookbackPeriod, t) ==
    LET cacheKey == <<"patterns", Len(priceData), lookbackPeriod>>
    IN IF SubCacheHit(m, cacheKey, ANALYSIS_CACHE_DURATION, t)
       THEN [result |-> MapGet(m, cacheKey).result, cache |-> m]
       ELSE LET patterns == PatternsUpTo(priceData, Len(priceData) - 1)
                recentPatterns ==
                    FilterSeq(patterns,
                        {j \in 1..Len(patterns) :
                            patterns[j].day >= Len(priceData) - lookbackPeriod})
            IN [result |-> recentPatterns,
                cache |-> SubCacheSet(m, cacheKey, recentPatterns, t)]

\* patterns.filter((p) => p.type === type)
PatternsOfType(patterns, type) ==
    FilterSeq(patterns, {j \in 1..Len(patterns) : patterns[j].type = type})

\* sum of the confidences / length, 0 for no pattern
AverageConfidence(patterns) ==
    IF Len(patterns) > 0
    THEN Q(SumSeq([j \in 1..Len(patterns) |-> patterns[j].confidence]),
           100 * Len(patterns))
    ELSE Q(0, 1)

\* patterns.reduce((max, curr) => curr.confidence > max.confidence ? curr : max),
\* <<>> for null: the first pattern of the highest confidence
Strongest(patterns) ==
    IF Len(patterns) = 0 THEN <<>>
    ELSE <<patterns[CHOOSE i \in 1..Len(patterns) :
               /\ \A j \in 1..Len(patterns) :
                      patterns[j].confidence <= patterns[i].confidence
               /\ \A j \in 1..(i - 1) :
                      patterns[j].confidence < patterns[i].confidence]>>

\* analyzePatternStrength(patterns, priceData, volumeIndicator) on its Map m
AnalyzePatternStrength(m, patterns, priceData, volumeIndicator, t) ==
    LET cacheKey == <<"strength", Len(patterns), Len(priceData),
                      IF volumeIndicator # <<>> THEN volumeIndicator[1].name
                      ELSE "none">>
    IN IF SubCacheHit(m, cacheKey, ANALYSIS_CACHE_DURATION, t)
       THEN [result |-> MapGet(m, cacheKey).result, cache |-> m]
       ELSE LET bullishPatterns == PatternsOfType(patterns, "bullish")
                bearishPatterns == PatternsOfType(patterns, "bearish")
                totalPatterns == Len(patterns)
                bullishConcentration == Q(Len(bullishPatterns), totalPatterns)
                bearishConcentration == Q(Len(bearishPatterns), totalPatterns)
                volumeConfirmation ==
                    IF volumeIndicator # <<>>
                       /\ FGt(CalculateVolatilitySquared(volumeIndicator[1].forecast),
                              VolatilityThresholdSquared)
                    THEN Q(7, 10) ELSE Q(5, 10)
                result ==
                    [bullishPatterns |-> bullishPatterns,
                     bearishPatterns |-> bearishPatterns,
                     bullishConcentration |-> bullishConcentration,
                     bearishConcentration |-> bearishConcentration,
                     bullishConfidence |-> AverageConfidence(bullishPatterns),
                     bearishConfidence |-> AverageConfidence(bearishPatterns),
                     volumeConfirmation |-> volumeConfirmation,
                     strongestBullish |-> Strongest(bullishPatterns),
                     strongestBearish |-> Strongest(bearishPatterns),
                     dominantSignal |->
                         IF FGt(bullishConcentration, bearishConcentration)
                         THEN "bullish"
                         ELSE IF FGt(bearishConcentration, bullishConcentration)
                         THEN "bearish" ELSE "neutral",
                     signalStrength |->
                         IF FGt(bearishConcentration, bullishConcentration)
                         THEN QSub(bearishConcentration, bullishConcentration)
                         ELSE QSub(bullishConcentration, bearishConcentration)]
            IN [result |-> result, cache |-> SubCacheSet(m, cacheKey, result, t)]

\* priceData.slice(-10)
LastTen(priceData) ==
    SubSeq(priceData, Max2(1, Len(priceData) - 9), Len(priceData))

\* analyzeTrendContext(patterns, priceData, trendIndicator) on its Map m;
\* priceData is not empty and its prices are positive
AnalyzeTrendContext(m, patterns, priceData, trendIndicator, t) ==
    LET cacheKey == <<"context", Len(patterns), Len(priceData), trendIndicator.name>>
    IN IF SubCacheHit(m, cacheKey, ANALYSIS_CACHE_DURATION, t)
       THEN [result |-> MapGet(m, cacheKey).result, cache |-> m]
       ELSE LET currentTrend == CalculateTrend(trendIndicator.forecast)
                recent == LastTen(priceData)
                supportLevel ==
                    CHOOSE v \in {recent[j].low : j \in 1..Len(recent)} :
                        \A j \in 1..Len(recent) : v <= recent[j].low
                resistanceLevel ==
                    CHOOSE v \in {recent[j].high : j \in 1..Len(recent)} :
                        \A j \in 1..Len(recent) : v >= recent[j].high
                currentPrice == priceData[Len(priceData)].avg
                \* (currentPrice - supportLevel) / supportLevel < 0.02
                nearSupport == 50 * (currentPrice - supportLevel) < supportLevel
                \* (resistanceLevel - currentPrice) / currentPrice < 0.02
                nearResistance == 50 * (resistanceLevel - currentPrice) < currentPrice
                result ==
                    [currentTrend |-> currentTrend,
                     trendStrengthSquared |->
                         CalculateVolatilitySquared(trendIndicator.forecast),
                     contextMultiplier |->
                         IF currentTrend = "bullish"
                         THEN [bullish |-> Q(8, 10), bearish |-> Q(12, 10)]
                         ELSE IF currentTrend = "bearish"
                         THEN [bullish |-> Q(12, 10), bearish |-> Q(8, 10)]
                         ELSE [bullish |-> Q(1, 1), bearish |-> Q(1, 1)],
                     supportLevel |-> supportLevel,
                     resistanceLevel |-> resistanceLevel,
                     nearSupport |-> nearSupport,
                     nearResistance |-> nearResistance,
                     reversalLikelihood |->
                         IF nearSupport THEN "bullish"
                         ELSE IF nearResistance THEN "bearish" ELSE "neutral"]
            IN [result |-> result, cache |-> SubCacheSet(m, cacheKey, result, t)]

\* baseIndicator.forecast.find((f) => f.day === day), <<>> for undefined
FindPoint(forecast, day) ==
    LET hits == {i \in 1..Len(forecast) : forecast[i].day = day}
    IN IF hits = {} THEN <<>>
       ELSE <<forecast[CHOOSE i \in hits : \A j \in hits : i <= j]>>

\* reversalFactor of generateReversalForecast for one day
ReversalFactor(direction, day, forecastDays, avgConfidence) ==
    LET initialPeriod == FMin(Q(5, 1), Q(forecastDays, 3))
        swing == QMul(Q(6, 100), avgConfidence)
        move == IF ~FGt(Q(day, 1), initialPeriod)
                THEN QMul(QDiv(Q(day, 1), initialPeriod), swing)
                ELSE QMul(swing,
                          QSub(Q(1, 1),
                               QMul(QDiv(QSub(Q(day, 1), initialPeriod),
                                         QSub(Q(forecastDays, 1), initialPeriod)),
                                    Q(1, 2))))
    IN IF direction = "buy" THEN QAdd(Q(1, 1), move)
       ELSE IF direction = "sell" THEN QSub(Q(1, 1), move)
       ELSE Q(1, 1)

RECURSIVE ReversalPoints(_, _, _, _, _, _)
\* the loop of generateReversalForecast for the days 1..day; draws[d] is the
\* value Math.random() returns for day d, in hundredths
ReversalPoints(base, day, forecastDays, direction, avgConfidence, draws) ==
    IF day < 1 THEN <<>>
    ELSE LET before == ReversalPoints(base, day - 1, forecastDays, direction,
                                      avgConfidence, draws)
             basePoint == FindPoint(base, day)
             reversalFactor == ReversalFactor(direction, day, forecastDays,
                                              avgConfidence)
             \* 1 + (Math.random() - 0.5) * 0.1 * avgConfidence
             volatilityFactor ==
                 QAdd(Q(1, 1),
                      QMul(QMul(Q(draws[day] - 50, 100), Q(1, 10)), avgConfidence))
         IN IF basePoint = <<>> THEN before
            ELSE Append(before,
                   [day |-> day,
                    high |-> QMul(QMul(Q(basePoint[1].high, 1), reversalFactor),
                                  volatilityFactor),
                    low |-> QMul(QMul(Q(basePoint[1].low, 1), reversalFactor),
                                 volatilityFactor),
                    avg |-> QMul(Q(basePoint[1].avg, 1), reversalFactor),
                    confidence |->
                        QMul(QMul(Q(basePoint[1].confidence, 100), avgConfidence),
                             QSub(Q(9, 10),
                                  QMul(Q(day, forecastDays), Q(3, 10)))),
                    indicator |-> "Candlestick Reversal_Reversal"])

\* generateReversalForecast(indicators, config, direction, patterns) on its
\* Map m
GenerateReversalForecast(m, indicators, config, direction, patterns, draws, t) ==
    LET cacheKey == <<"forecast", config.symbol, config.forecastDays, direction,
                      Len(patterns)>>
    IN IF SubCacheHit(m, cacheKey, FORECAST_CACHE_DURATION, t)
       THEN [result |-> MapGet(m, cacheKey).result, cache |-> m]
       ELSE LET baseIndicator ==
                    OrElse(FindIndicator(indicators, "sma"), <<indicators[1]>>)[1]
                forecast == ReversalPoints(baseIndicator.forecast,
                                           config.forecastDays, config.forecastDays,
                                           direction, AverageConfidence(patterns),
                                           draws)
            IN [result |-> forecast,
                cache |-> SubCacheSet(m, cacheKey, forecast, t)]

\* calculateHistoricalAccuracy(indicators) of both strategies:
\* Math.min(avgAccuracy * 0.85, 0.75)
CalculateHistoricalAccuracy(indicators) ==
    FMin(QMul(Q(SumSeq([i \in 1..Len(indicators) |-> indicators[i].accuracy]),
                1000 * Len(indicators)),
              Q(85, 100)),
         Q(75, 100))

\* CandlestickReversalStrategy.calculateWeight(confidenceScore)
CandlestickWeight(confidenceScore) ==
    FMin(QMul(Q(6, 10), confidenceScore), Q(8, 10))

\* new Set(patterns.map((p) => p.name)).size
UniquePatterns(patterns) ==
    Cardinality({patterns[j].name : j \in 1..Len(patterns)})

\* s with the element e appended when the condition holds
PushIf(s, cond, e) == IF cond THEN Append(s, e) ELSE s

\* what execute() of a strategy did: whether it threw, whether it returned
\* the strategy cache's entry, whether a sub-analysis added to
\* confidenceScore or set a direction, the StrategyResult, and the caches
\* after the call
NoResult == [name |-> "none"]

ExecuteOutcome(threw, hit, fired, result, cache, lastCleanup, sub) ==
    [threw |-> threw, hit |-> hit, fired |-> fired, result |-> result,
     cache |-> cache, lastCleanup |-> lastCleanup, sub |-> sub]

\* a TradeSignal
TradeSignal(recommendation, reasons, confidenceScore, t, strategy) ==
    [recommendation |-> recommendation, reasons |-> reasons,
     confidenceScore |-> confidenceScore, timestamp |-> t, strategy |-> strategy]

\* a StrategyResult; executionTime is Date.now() - startTime within one call
StrategyResult(signal, forecast, name, accuracy, weight) ==
    [signal |-> signal, forecast |-> forecast, name |-> name,
     accuracy |-> accuracy, weight |-> weight, executionTime |-> 0]

\* forecast.map((f) => ({...f, indicator})), the numbers as rationals
Relabel(forecast, indicator) ==
    [i \in 1..Len(forecast) |->
        [day |-> forecast[i].day, high |-> Q(forecast[i].high, 1),
         low |-> Q(forecast[i].low, 1), avg |-> Q(forecast[i].avg, 1),
         confidence |-> Q(forecast[i].confidence, 100), indicator |-> indicator]]

\* CandlestickReversalStrategy.execute(indicators, config) at time t on the
\* strategy cache sc and the closure Maps sub; draws are the values
\* Math.random() returns during the call
CandlestickExecute(sc, lastCleanup, sub, indicators, config, draws, t) ==
    LET cacheKey == GenerateStrategyCacheKey(CANDLESTICK_NAME, config,
                        CalculateIndicatorSignature(indicators))
        cachedResult == GetCachedStrategyResult(sc, lastCleanup, cacheKey, t)
        priceIndicator ==
            OrElse(FindIndicator(indicators, "sma"), <<indicators[1]>>)[1]
        volumeIndicator == FindIndicator(indicators, "vwap")
        trendIndicator ==
            OrElse(FindIndicator(indicators, "ema"), <<priceIndicator>>)[1]
        priceData == priceIndicator.forecast
        Direction(pa) ==
            IF pa.dominantSignal = "bullish" THEN "buy"
            ELSE IF pa.dominantSignal = "bearish" THEN "sell" ELSE "neutral"
        Scored(rp, pa, tc, fc) ==
            LET patterns == rp.result
                analysis == pa.result
                context == tc.result
                recommendation == Direction(analysis)
                strongest ==
                    IF recommendation = "buy" THEN analysis.strongestBullish
                    ELSE analysis.strongestBearish
                concentrated ==
                    /\ recommendation # "neutral"
                    /\ FGt(IF recommendation = "buy"
                           THEN analysis.bullishConcentration
                           ELSE analysis.bearishConcentration, Q(7, 10))
                near == \/ recommendation = "buy" /\ context.nearSupport
                        \/ recommendation = "sell" /\ context.nearResistance
                volume == FGt(analysis.volumeConfirmation, Q(6, 10))
                diverse == UniquePatterns(patterns) > 2
                fromPattern ==
                    IF recommendation = "neutral" THEN Q(0, 1)
                    ELSE QAdd(Q(strongest[1].confidence * 6, 1000),
                              IF concentrated THEN Q(2, 10) ELSE Q(0, 1))
                inContext ==
                    IF recommendation = "neutral" THEN fromPattern
                    ELSE QAdd(QMul(fromPattern,
                                   IF recommendation = "buy"
                                   THEN context.contextMultiplier.bullish
                                   ELSE context.contextMultiplier.bearish),
                              IF near THEN Q(15, 100) ELSE Q(0, 1))
                capped == FMin(QAdd(inContext,
                                    IF volume THEN Q(1, 10) ELSE Q(0, 1)),
                               Q(1, 1))
                confidenceScore ==
                    IF diverse THEN FMin(QMul(capped, Q(11, 10)), Q(1, 1))
                    ELSE capped
                reasons ==
                    PushIf(PushIf(PushIf(PushIf(PushIf(PushIf(PushIf(PushIf(<<>>,
                        recommendation = "buy", "Bullish candlestick pattern"),
                        recommendation = "buy" /\ concentrated,
                        "Strong bullish pattern concentration"),
                        recommendation = "sell", "Bearish candlestick pattern"),
                        recommendation = "sell" /\ concentrated,
                        "Strong bearish pattern concentration"),
                        recommendation = "buy" /\ near,
                        "Price near support level - reversal potential"),
                        recommendation = "sell" /\ near,
                        "Price near resistance level - reversal potential"),
                        volume, "Volume supporting reversal pattern"),
                        diverse, "Multiple pattern types detected")
                result ==
                    StrategyResult(
                        TradeSignal(recommendation, reasons, confidenceScore, t,
                                    CANDLESTICK_NAME),
                        fc.result, CANDLESTICK_NAME,
                        CalculateHistoricalAccuracy(indicators),
                        CandlestickWeight(confidenceScore))
                stored == SetCachedStrategyResult(cachedResult.cache,
                              cachedResult.lastCleanup, cacheKey, result, t)
            IN ExecuteOutcome(FALSE, FALSE, recommendation # "neutral" \/ volume,
                   result, stored.cache, stored.lastCleanup,
                   [sub EXCEPT !.patterns = rp.cache, !.strength = pa.cache,
                               !.context = tc.cache,
                               !.reversalForecast = fc.cache])
        WithContext(rp, pa, tc) ==
            CHOOSE r \in {Scored(rp, pa, tc, fc) : fc \in
                {GenerateReversalForecast(sub.reversalForecast, indicators,
                     config, Direction(pa.result), rp.result, draws, t)}} : TRUE
        WithStrength(rp, pa) ==
            CHOOSE r \in {WithContext(rp, pa, tc) : tc \in
                {AnalyzeTrendContext(sub.context, rp.result, priceData,
                                     trendIndicator, t)}} : TRUE
        WithPatterns(rp) ==
            IF Len(rp.result) = 0
            THEN ExecuteOutcome(FALSE, FALSE, FALSE,
                     [signal |-> TradeSignal("neutral",
                          <<"No significant candlestick patterns detected">>,
                          Q(1, 10), t, CANDLESTICK_NAME),
                      forecast |-> Relabel(priceData, "Candlestick Reversal_Neutral"),
                      name |-> CANDLESTICK_NAME, accuracy |-> Q(5, 10),
                      weight |-> Q(3, 10), executionTime |-> 0],
                     cachedResult.cache, cachedResult.lastCleanup,
                     [sub EXCEPT !.patterns = rp.cache])
            ELSE CHOOSE r \in {WithStrength(rp, pa) : pa \in
                     {AnalyzePatternStrength(sub.strength, rp.result, priceData,
                                             volumeIndicator, t)}} : TRUE
    IN IF cachedResult.hit
       THEN ExecuteOutcome(FALSE, TRUE, FALSE, cachedResult.result,
                           cachedResult.cache, cachedResult.lastCleanup, sub)
       ELSE IF indicators = <<>>
       \* priceIndicator is undefined: reading its forecast is a TypeError
       THEN ExecuteOutcome(TRUE, FALSE, FALSE, NoResult, cachedResult.cache,
                           cachedResult.lastCleanup, sub)
       ELSE CHOOSE r \in {WithPatterns(rp) : rp \in
                {RecognizePatterns(sub.patterns, priceData,
                                   config.lookbackPeriod, t)}} : TRUE

(***************************************************************************)
(* MeanReversionStrategy.                                                  *)
(***************************************************************************)
MEAN_REVERSION_NAME == "Mean Reversion"

\* analyzeRSI(rsi, sensitivity) on its closure Map m; sensitivity in
\* hundredths: avg < 30 + sensitivity * 20, avg > 70 - sensitivity * 20
AnalyzeRSI(m, rsi, sensitivity, t) ==
    LET cacheKey == <<"rsi", rsi.name, sensitivity, Len(rsi.forecast)>>
        f == rsi.forecast
        low == {i \in 1..Len(f) : 5 * f[i].avg < 150 + sensitivity}
        high == {i \in 1..Len(f) : 5 * f[i].avg > 350 - sensitivity}
    IN IF SubCacheHit(m, cacheKey, ANALYSIS_CACHE_DURATION, t)
       THEN [result |-> MapGet(m, cacheKey).result, cache |-> m]
       ELSE LET result ==
                    [oversold |-> FilterSeq(f, low),
                     overbought |-> FilterSeq(f, high),
                     neutral |-> FilterSeq(f, (1..Len(f)) \ (low \cup high)),
                     avgRSI |-> CalculateAveragePrice(f)]
            IN [result |-> result, cache |-> SubCacheSet(m, cacheKey, result, t)]

\* analyzeBollinger(bollinger) on its closure Map m
AnalyzeBollinger(m, bollinger, t) ==
    LET cacheKey == <<"bollinger", bollinger.name, Len(bollinger.forecast)>>
        f == bollinger.forecast
    IN IF SubCacheHit(m, cacheKey, ANALYSIS_CACHE_DURATION, t)
       THEN [result |-> MapGet(m, cacheKey).result, cache |-> m]
       ELSE LET result ==
                    [lowerBandTouches |->
                         FilterSeq(f, {i \in 1..Len(f) :
                             10 * f[i].low <=
                                 10 * f[i].avg - 4 * (f[i].high - f[i].low)}),
                     upperBandTouches |->
                         FilterSeq(f, {i \in 1..Len(f) :
                             10 * f[i].high >=
                                 10 * f[i].avg + 4 * (f[i].high - f[i].low)}),
                     bandwidthSquared |-> CalculateVolatilitySquared(f),
                     trend |-> CalculateTrend(f)]
            IN [result |-> result, cache |-> SubCacheSet(m, cacheKey, result, t)]

\* calculateMeanReversion(forecasts, lookbackPeriod) on its closure Map m;
\* the sum of the last lookbackPeriod prices is divided by lookbackPeriod
\* however many prices there are.  With no price, currentPrice is undefined
\* and the deviation NaN, which is neither below -0.05 nor above 0.05
CalculateMeanReversion(m, forecasts, lookbackPeriod, t) ==
    LET cacheKey == <<"meanrev", Len(forecasts), lookbackPeriod>>
        prices == Avgs(forecasts)
        n == Len(prices)
    IN IF SubCacheHit(m, cacheKey, ANALYSIS_CACHE_DURATION, t)
       THEN [result |-> MapGet(m, cacheKey).result, cache |-> m]
       ELSE LET movingAverage ==
                    Q(SumSeq(SubSeq(prices, Max2(1, n - lookbackPeriod + 1), n)),
                      lookbackPeriod)
                deviation ==
                    IF n = 0 THEN NaN
                    ELSE QDiv(QSub(Q(prices[n], 1), movingAverage), movingAverage)
                result ==
                    [movingAverage |-> movingAverage,
                     deviation |-> deviation,
                     isOversold |-> n > 0 /\ FGt(Q(-5, 100), deviation),
                     isOverbought |-> n > 0 /\ FGt(deviation, Q(5, 100))]
            IN [result |-> result, cache |-> SubCacheSet(m, cacheKey, result, t)]

RECURSIVE MeanReversionPoints(_, _, _, _)
\* the loop of generateMeanReversionForecast for the days 1..day
MeanReversionPoints(base, day, forecastDays, draws) ==
    IF day < 1 THEN <<>>
    ELSE LET before == MeanReversionPoints(base, day - 1, forecastDays, draws)
             basePoint == FindPoint(base, day)
             \* 1 - (day / config.forecastDays) * 0.1
             meanReversionFactor ==
                 QSub(Q(1, 1), QMul(Q(day, forecastDays), Q(1, 10)))
             \* 1 + (Math.random() - 0.5) * 0.1
             volatilityAdjustment ==
                 QAdd(Q(1, 1), QMul(Q(draws[day] - 50, 100), Q(1, 10)))
         IN IF basePoint = <<>> THEN before
            ELSE Append(before,
                   [day |-> day,
                    high |-> QMul(QMul(Q(basePoint[1].high, 1),
                                       meanReversionFactor), volatilityAdjustment),
                    low |-> QMul(QMul(Q(basePoint[1].low, 1),
                                      meanReversionFactor), volatilityAdjustment),
                    avg |-> QMul(Q(basePoint[1].avg, 1), meanReversionFactor),
                    confidence |->
                        QMul(Q(basePoint[1].confidence, 100),
                             QSub(Q(1, 1), QMul(Q(day, forecastDays), Q(2, 10)))),
                    indicator |-> "Mean Reversion_MeanReversion"])

\* generateMeanReversionForecast(indicators, config) on its closure Map m
GenerateMeanReversionForecast(m, indicators, config, draws, t) ==
    LET cacheKey == <<"forecast", config.symbol, config.forecastDays,
                      CalculateIndicatorSignature(indicators)>>
    IN IF SubCacheHit(m, cacheKey, FORECAST_CACHE_DURATION, t)
       THEN [result |-> MapGet(m, cacheKey).result, cache |-> m]
       ELSE LET baseIndicator ==
                    OrElse(FindIndicator(indicators, "sma"), <<indicators[1]>>)[1]
                forecast == MeanReversionPoints(baseIndicator.forecast,
                                config.forecastDays, config.forecastDays, draws)
            IN [result |-> forecast,
                cache |-> SubCacheSet(m, cacheKey, forecast, t)]

\* MeanReversionStrategy.calculateWeight(confidenceScore)
MeanReversionWeight(confidenceScore) ==
    FMin(QMul(Q(7, 10), confidenceScore), Q(9, 10))

\* MeanReversionStrategy.execute(indicators, config) at time t on the
\* strategy cache sc and the closure Maps sub
MeanReversionExecute(sc, lastCleanup, sub, indicators, config, draws, t) ==
    LET cacheKey == GenerateStrategyCacheKey(MEAN_REVERSION_NAME, config,
                        CalculateIndicatorSignature(indicators))
        cachedResult == GetCachedStrategyResult(sc, lastCleanup, cacheKey, t)
        rsiIndicator == FindIndicator(indicators, "rsi")
        bollingerIndicator == FindIndicator(indicators, "bollinger")
        smaIndicator == FindIndicator(indicators, "sma")
        \* an analysis that is not run leaves its Map alone
        NotRun(m) == [result |-> <<>>, cache |-> m]
        Scored(ra, ba, ma, fc) ==
            LET rsiBuy == /\ rsiIndicator # <<>>
                          /\ Len(ra.result.oversold) > Len(ra.result.overbought)
                rsiSell == /\ rsiIndicator # <<>>
                           /\ Len(ra.result.overbought) > Len(ra.result.oversold)
                rsiNeutral == rsiIndicator # <<>> /\ ~rsiBuy /\ ~rsiSell
                lower == /\ bollingerIndicator # <<>>
                         /\ Len(ba.result.lowerBandTouches) > 0
                upper == /\ bollingerIndicator # <<>> /\ ~lower
                         /\ Len(ba.result.upperBandTouches) > 0
                quiet == /\ bollingerIndicator # <<>>
                         /\ FGt(VolatilityThresholdSquared,
                                ba.result.bandwidthSquared)
                smaBuy == smaIndicator # <<>> /\ ma.result.isOversold
                smaSell == /\ smaIndicator # <<>> /\ ~ma.result.isOversold
                           /\ ma.result.isOverbought
                afterRSI == IF rsiBuy THEN "buy"
                            ELSE IF rsiSell THEN "sell" ELSE "neutral"
                afterBollinger ==
                    IF afterRSI # "neutral" THEN afterRSI
                    ELSE IF lower THEN "buy"
                    ELSE IF upper THEN "sell" ELSE "neutral"
                afterSMA ==
                    IF afterBollinger # "neutral" THEN afterBollinger
                    ELSE IF smaBuy THEN "buy"
                    ELSE IF smaSell THEN "sell" ELSE "neutral"
                Add(cond, hundredths) ==
                    IF cond THEN Q(hundredths, 100) ELSE Q(0, 1)
                capped ==
                    FMin(QAdd(QAdd(QAdd(Add(rsiBuy \/ rsiSell, 30),
                                        Add(lower \/ upper, 25)),
                                   Add(quiet, 10)),
                              Add(smaBuy \/ smaSell, 20)),
                         Q(1, 1))
                reasons ==
                    PushIf(PushIf(PushIf(PushIf(PushIf(PushIf(PushIf(PushIf(<<>>,
                        rsiBuy, "RSI indicates oversold condition"),
                        rsiSell, "RSI indicates overbought condition"),
                        rsiNeutral, "RSI shows neutral conditions"),
                        lower, "Price touching lower Bollinger Band - potential bounce"),
                        upper, "Price touching upper Bollinger Band - potential reversal"),
                        quiet, "Low volatility detected - potential breakout"),
                        smaBuy, "Price below moving average - oversold"),
                        smaSell, "Price above moving average - overbought")
                none == Len(reasons) = 0
                confidenceScore == IF none THEN Q(1, 10) ELSE capped
                result ==
                    StrategyResult(
                        TradeSignal(IF none THEN "neutral" ELSE afterSMA,
                            IF none
                            THEN <<"No clear mean reversion signals detected">>
                            ELSE reasons,
                            confidenceScore, t, MEAN_REVERSION_NAME),
                        fc.result, MEAN_REVERSION_NAME,
                        CalculateHistoricalAccuracy(indicators),
                        MeanReversionWeight(confidenceScore))
                stored == SetCachedStrategyResult(cachedResult.cache,
                              cachedResult.lastCleanup, cacheKey, result, t)
            IN ExecuteOutcome(FALSE, FALSE,
                   rsiBuy \/ rsiSell \/ lower \/ upper \/ quiet \/ smaBuy
                       \/ smaSell,
                   result, stored.cache, stored.lastCleanup,
                   [sub EXCEPT !.rsi = ra.cache, !.bollinger = ba.cache,
                               !.meanrev = ma.cache, !.meanForecast = fc.cache])
        WithMean(ra, ba, ma) ==
            CHOOSE r \in {Scored(ra, ba, ma, fc) : fc \in
                {GenerateMeanReversionForecast(sub.meanForecast, indicators,
                                               config, draws, t)}} : TRUE
        WithBollinger(ra, ba) ==
            CHOOSE r \in {WithMean(ra, ba, ma) : ma \in
                {IF smaIndicator # <<>>
                 THEN CalculateMeanReversion(sub.meanrev, smaIndicator[1].forecast,
                                             config.lookbackPeriod, t)
                 ELSE NotRun(sub.meanrev)}} : TRUE
        WithRSI(ra) ==
            CHOOSE r \in {WithBollinger(ra, ba) : ba \in
                {IF bollingerIndicator # <<>>
                 THEN AnalyzeBollinger(sub.bollinger, bollingerIndicator[1], t)
                 ELSE NotRun(sub.bollinger)}} : TRUE
    IN IF cachedResult.hit
       THEN ExecuteOutcome(FALSE, TRUE, FALSE, cachedResult.result,
                           cachedResult.cache, cachedResult.lastCleanup, sub)
       ELSE IF rsiIndicator = <<>> /\ bollingerIndicator = <<>>
               /\ smaIndicator = <<>>
       \* "Mean Reversion strategy requires at least one of: RSI, ..."
       THEN ExecuteOutcome(TRUE, FALSE, FALSE, NoResult, cachedResult.cache,
                           cachedResult.lastCleanup, sub)
       ELSE CHOOSE r \in {WithRSI(ra) : ra \in
                {IF rsiIndicator # <<>>
                 THEN AnalyzeRSI(sub.rsi, rsiIndicator[1], config.sensitivity, t)
                 ELSE NotRun(sub.rsi)}} : TRUE

(***************************************************************************)
(* Calls of the strategies' execute().                                     *)
(***************************************************************************)
StrategyDays == 4   \* forecast horizon (config.forecastDays) of the strategy calls

\* a ForecastPoint[] with the given averages, high and low the spread above
\* and below them
MkPoints(name, avgs, spread) ==
    [i \in 1..Len(avgs) |->
        [day |-> i, high |-> avgs[i] + spread, low |-> avgs[i] - spread,
         avg |-> avgs[i], confidence |-> 80, indicator |-> name]]

\* the indicator lists execute() is called with (accuracy and weight in
\* thousandths): none; a flat, a zigzag and a rising SMA, the last with a
\* volatile VWAP; a level and a low RSI, the last with level Bollinger
\* bands; a falling EMA with a level SMA of wide candles
StrategyInputs ==
    {<<>>,
     <<MkIndicator("SMA", 700, 100, MkPoints("SMA", <<100, 100, 100, 100>>, 0))>>,
     <<MkIndicator("SMA", 700, 100, MkPoints("SMA", <<90, 100, 115, 95>>, 0))>>,
     <<MkIndicator("SMA", 700, 100, MkPoints("SMA", <<90, 100, 115, 120>>, 5)),
       MkIndicator("VWAP", 744, 80, MkPoints("VWAP", <<100, 120, 90, 130>>, 5))>>,
     <<MkIndicator("RSI", 724, 120, MkPoints("RSI", <<50, 50, 50, 50>>, 0))>>,
     <<MkIndicator("RSI", 724, 120, MkPoints("RSI", <<30, 35, 30, 35>>, 0)),
       MkIndicator("BOLLINGER", 760, 110,
                   MkPoints("BOLLINGER", <<100, 100, 100, 100>>, 5))>>,
     <<MkIndicator("EMA", 780, 150, MkPoints("EMA", <<120, 110, 100, 90>>, 0)),
       MkIndicator("SMA", 700, 100, MkPoints("SMA", <<100, 100, 100, 100>>, 5))>>}

\* createStrategyConfig(): the defaults, and a lookback of one day
StrategyConfigs ==
    {[symbol |-> "BTC", forecastDays |-> StrategyDays, lookbackPeriod |-> l,
      sensitivity |-> 50, riskLevel |-> "medium"] : l \in {14, 1}}

\* the values (in hundredths) Math.random() returns for the days of a call
RandomDraws == {[d \in 1..StrategyDays |-> r] : r \in {25, 75}}

\* the record of a completed execute()
ExecuteCall(strategy, indicators, config, r) ==
    [op |-> "execute", strategy |-> strategy, indicators |-> indicators,
     config |-> config, threw |-> r.threw, hit |-> r.hit, fired |-> r.fired,
     result |-> r.result, at |-> now]

\* one execute() runs from call to return (it awaits nothing)
Executed(strategy, indicators, config, r) ==
    /\ call' = ExecuteCall(strategy, indicators, config, r)
    /\ prev' = call
    /\ strategyCache' = r.cache
    /\ strategyLastCleanup' = r.lastCleanup
    /\ subCache' = r.sub
    /\ calls' = calls + 1
    /\ UNCHANGED <<now, ticks, mergedForecastCache, indicatorCache,
                   combinedResultCache, combinedLastCleanup, signalCache, bt>>

CandlestickExecuteCall ==
    /\ calls < MaxCalls
    /\ \E indicators \in StrategyInputs, config \in StrategyConfigs,
          draws \in RandomDraws :
          \E r \in {CandlestickExecute(strategyCache, strategyLastCleanup,
                        subCache, indicators, config, draws, now)} :
              Executed(CANDLESTICK_NAME, indicators, config, r)

MeanReversionExecuteCall ==
    /\ calls < MaxCalls
    /\ \E indicators \in StrategyInputs, config \in StrategyConfigs,
          draws \in RandomDraws :
          \E r \in {MeanReversionExecute(strategyCache, strategyLastCleanup,
                        subCache, indicators, config, draws, now)} :
              Executed(MEAN_REVERSION_NAME, indicators, config, r)

\* time passes: a moment, the analysis caches' lifetime, the strategy
\* cache's lifetime
TickStrategy == TickBy({1, ANALYSIS_CACHE_DURATION, STRATEGY_CACHE_DURATION})

NextStrategy == CandlestickExecuteCall \/ MeanReversionExecuteCall \/ TickStrategy

SpecStrategy == Init /\ [][NextStrategy]_vars

(***************************************************************************)
(* Properties of execute().                                                *)
(***************************************************************************)
\* the indicator list holds what the strategy needs: one of RSI, Bollinger
\* Bands and SMA for Mean Reversion, a price indicator (any first entry) for
\* Candlestick Reversal
MinimumInput(strategy, indicators) ==
    IF strategy = MEAN_REVERSION_NAME
    THEN \E part \in {"rsi", "bollinger", "sma"} :
             FindIndicator(indicators, part) # <<>>
    ELSE Len(indicators) > 0

\* C6: on an indicator list that satisfies the strategy's minimum input
\* requirement, execute() does not throw and returns a result whose
\* signal.reasons is not empty and whose recommendation is buy, sell or
\* neutral.
C6_AlwaysAnswers ==
    (call.op = "execute" /\ MinimumInput(call.strategy, call.indicators)) =>
        /\ ~call.threw
        /\ Len(call.result.signal.reasons) > 0
        /\ call.result.signal.recommendation \in {"buy", "sell", "neutral"}

\* C9: two successive calls of a strategy's execute() with the same
\* indicators and config, the second within the strategy cache's lifetime of
\* the first, return results of identical content (signal with its
\* timestamp, forecast, accuracy, weight, executionTime), as a cache hit
\* does.
C9_SecondCallIsHit ==
    (/\ call.op = "execute" /\ prev.op = "execute"
     /\ call.strategy = prev.strategy
     /\ call.indicators = prev.indicators
     /\ call.config = prev.config
     /\ ~prev.threw
     /\ call.at - prev.at < STRATEGY_CACHE_DURATION) =>
        call.result = prev.result

\* C10: when no sub-analysis of an execution added to confidenceScore or set
\* a direction, the returned signal is neutral with confidenceScore exactly
\* 0.1 and holds the strategy's fixed "no signal" reason.
C10_NoSignalFallback ==
    (call.op = "execute" /\ ~call.threw /\ ~call.hit /\ ~call.fired) =>
        /\ call.result.signal.recommendation = "neutral"
        /\ call.result.signal.confidenceScore = Q(1, 10)
        /\ \E i \in 1..Len(call.result.signal.reasons) :
               call.result.signal.reasons[i] =
                   (IF call.strategy = MEAN_REVERSION_NAME
                    THEN "No clear mean reversion signals detected"
                    ELSE "No significant candlestick patterns detected")

\* C19: in every StrategyResult execute() returns, weight is the strategy's
\* base weight (0.6 Candlestick Reversal, 0.7 Mean Reversion) times the
\* result's signal.confidenceScore, clamped to the strategy's cap (0.8 and
\* 0.9).
C19_WeightFromConfidence ==
    (call.op = "execute" /\ ~call.threw) =>
        call.result.weight =
            (IF call.strategy = MEAN_REVERSION_NAME
             THEN FMin(QMul(Q(7, 10), call.result.signal.confidenceScore),
                       Q(9, 10))
             ELSE FMin(QMul(Q(6, 10), call.result.signal.confidenceScore),
                       Q(8, 10)))

\* the signal execute() returns for the arguments of the call when it is the
\* first call of a fresh process
FreshSignal ==
    LET draws == CHOOSE d \in RandomDraws : TRUE
        first == IF call.strategy = MEAN_REVERSION_NAME
                 THEN MeanReversionExecute(<<>>, 0, NoSubCaches, call.indicators,
                                           call.config, draws, call.at)
                 ELSE CandlestickExecute(<<>>, 0, NoSubCaches, call.indicators,
                                         call.config, draws, call.at)
    IN first.result.signal

\* C26: the signal (recommendation, reasons, confidenceScore) execute()
\* returns is determined by its arguments alone: it is the signal the same
\* execute() returns as the first call of a fresh process, whatever was
\* executed before.
C26_SignalFromArgumentsAlone ==
    (call.op = "execute" /\ ~call.threw) =>
        /\ call.result.signal.recommendation = FreshSignal.recommendation
        /\ call.result.signal.reasons = FreshSignal.reasons
        /\ call.result.signal.confidenceScore = FreshSignal.confidenceScore

(***************************************************************************)
(* The other four strategies (strategy/breakoutStrategy, goldenCross-      *)
(* Strategy, momentumDivergenceStrategy, volatilityBreakoutStrategy).      *)
(* Their execute() is a list of checks on the outcome of sub-analyses      *)
(* (support and resistance, crossovers, divergences, squeezes): a check    *)
(* that fires pushes a reason, adds a constant to confidenceScore and may  *)
(* set the direction.  The sub-analyses and their closure Maps are not     *)
(* modelled: which of the checks the indicators admit fire is drawn, all   *)
(* directional ones in the same direction.  Of the forecast, the days and  *)
(* the confidences are modelled; high, low and avg are left at the base    *)
(* point's values.                                                         *)
(***************************************************************************)
\* one check of an execute(): what it adds (hundredths), the reason it
\* pushes, whether it sets the direction and whether the boost counts it.
\* A directional check assigns under if (recommendation === "neutral");
\* the first directional check of each strategy assigns outright (Outright).
SignalCheck(adds, reason, directional, flagged) ==
    [adds |-> adds, reason |-> reason, directional |-> directional,
     flagged |-> flagged, otherwise |-> FALSE, floor |-> 0, guarded |-> TRUE]

\* recommendation = "buy" / "sell" without a test of the current value
Outright(check) == [check EXCEPT !.guarded = FALSE]

\* BreakoutStrategy: requirement, checks, fallback, boost (more than two
\* reasons: times 1.2), calculateWeight, calculateHistoricalAccuracy and
\* the decay of generateBreakoutForecast
BreakoutStrategy(indicators) ==
    LET Has(part) == FindIndicator(indicators, part) # <<>>
        first == IF indicators = <<>> THEN <<>> ELSE <<indicators[1]>>
    IN [name |-> "Breakout",
        unmet |-> ~Has("vwap") /\ ~Has("macd") /\ ~Has("bollinger"),
        checks |->
            PushIf(PushIf(PushIf(PushIf(PushIf(PushIf(PushIf(<<>>,
                TRUE, Outright(SignalCheck(25, "Price near resistance or support level",
                                           TRUE, TRUE))),
                Has("vwap"), SignalCheck(30, "Volume breakout detected", TRUE, TRUE)),
                Has("vwap"), SignalCheck(20, "Significant volume spike detected",
                                         FALSE, TRUE)),
                Has("macd"), SignalCheck(20, "Momentum confirmed", TRUE, TRUE)),
                Has("macd"), SignalCheck(15, "Strong momentum detected", FALSE, TRUE)),
                Has("bollinger"), SignalCheck(15, "High volatility detected",
                                              TRUE, TRUE)),
                Has("adx"), SignalCheck(20, "Strong trend detected", TRUE, TRUE)),
        noSignal |-> "No clear breakout signals detected",
        boostOver |-> 2, boost |-> Q(12, 10),
        boosted |-> <<"Multiple breakout signals aligned">>,
        baseWeight |-> Q(80, 100), weightCap |-> Q(95, 100),
        accuracyFactor |-> Q(90, 100), accuracyCap |-> Q(85, 100),
        decayFrom |-> Q(90, 100), decayBy |-> Q(10, 100),
        baseIndicator |-> OrElse(FindIndicator(indicators, "sma"),
                                 first),
        label |-> "Breakout_Breakout"]

\* GoldenCrossStrategy: the crossover checks need both moving averages, the
\* single-average trend check runs without one of them; a VWAP that does
\* not support the signal scales confidenceScore by 0.8; a Golden or Death
\* Cross reason boosts by 1.1
GoldenCrossStrategy(indicators) ==
    LET Has(part) == FindIndicator(indicators, part) # <<>>
        first == IF indicators = <<>> THEN <<>> ELSE <<indicators[1]>>
        both == Has("ema") /\ Has("sma")
    IN [name |-> "Golden Cross",
        unmet |-> ~Has("ema") /\ ~Has("sma"),
        checks |->
            PushIf(PushIf(PushIf(PushIf(PushIf(PushIf(<<>>,
                both, Outright(SignalCheck(40, "Golden Cross or Death Cross detected",
                                           TRUE, TRUE))),
                both, SignalCheck(20, "Moving averages aligned", TRUE, FALSE)),
                both, SignalCheck(30, "Strong trend confirmed", TRUE, FALSE)),
                Has("vwap") /\ (Has("ema") \/ Has("sma")),
                    [SignalCheck(25, "Volume supporting price movement",
                                 FALSE, FALSE) EXCEPT !.otherwise = TRUE]),
                Has("vwap") /\ (Has("ema") \/ Has("sma")),
                    SignalCheck(10, "Strong volume-price relationship", FALSE, FALSE)),
                ~both /\ (Has("ema") \/ Has("sma")),
                    SignalCheck(20, "Moving average showing a trend", TRUE, FALSE)),
        noSignal |-> "No clear moving average signals detected",
        boostOver |-> 0, boost |-> Q(11, 10), boosted |-> <<>>,
        baseWeight |-> Q(75, 100), weightCap |-> Q(90, 100),
        accuracyFactor |-> Q(88, 100), accuracyCap |-> Q(80, 100),
        decayFrom |-> Q(95, 100), decayBy |-> Q(15, 100),
        baseIndicator |-> OrElse(FindIndicator(indicators, "ema"),
                                 OrElse(FindIndicator(indicators, "sma"),
                                        first)),
        label |-> "Golden Cross_GoldenCross"]

\* MomentumDivergenceStrategy: more than one reason that contains
\* "divergence" boosts by 1.15
MomentumDivergenceStrategy(indicators) ==
    LET Has(part) == FindIndicator(indicators, part) # <<>>
        first == IF indicators = <<>> THEN <<>> ELSE <<indicators[1]>>
    IN [name |-> "Momentum Divergence",
        unmet |-> ~Has("rsi") /\ ~Has("macd") /\ ~Has("stochastic"),
        checks |->
            PushIf(PushIf(PushIf(PushIf(PushIf(PushIf(PushIf(<<>>,
                Has("rsi"), Outright(SignalCheck(35, "RSI divergence detected",
                                                 TRUE, TRUE))),
                Has("rsi"), SignalCheck(15, "RSI at extreme level - enhanced divergence signal",
                                        FALSE, TRUE)),
                Has("rsi"), SignalCheck(10, "RSI momentum supporting signal",
                                        FALSE, FALSE)),
                Has("macd"), SignalCheck(30, "MACD divergence detected", TRUE, TRUE)),
                Has("macd"), SignalCheck(15, "MACD zero-line crossover supporting divergence signal",
                                         FALSE, TRUE)),
                Has("macd"), SignalCheck(10, "MACD momentum supporting signal",
                                         FALSE, FALSE)),
                Has("stochastic"), SignalCheck(25, "Stochastic divergence detected",
                                               TRUE, TRUE)),
        noSignal |-> "No momentum divergences detected",
        boostOver |-> 1, boost |-> Q(115, 100),
        boosted |-> <<"Multiple momentum divergences confirmed">>,
        baseWeight |-> Q(65, 100), weightCap |-> Q(85, 100),
        accuracyFactor |-> Q(82, 100), accuracyCap |-> Q(75, 100),
        decayFrom |-> Q(85, 100), decayBy |-> Q(25, 100),
        baseIndicator |-> OrElse(FindIndicator(indicators, "sma"),
                                 first),
        label |-> "Momentum Divergence_Divergence"]

\* VolatilityBreakoutStrategy: a compression that sets no direction lifts
\* confidenceScore to at least 0.4; there is no boost
VolatilityBreakoutStrategy(indicators) ==
    LET Has(part) == FindIndicator(indicators, part) # <<>>
        first == IF indicators = <<>> THEN <<>> ELSE <<indicators[1]>>
    IN [name |-> "Volatility Breakout",
        unmet |-> ~Has("bollinger"),
        checks |->
            <<[SignalCheck(30, "Volatility compression detected", FALSE, FALSE)
                  EXCEPT !.floor = 40],
              SignalCheck(20, "Extended volatility squeeze", FALSE, FALSE),
              Outright(SignalCheck(40, "Volatility expansion detected", TRUE, FALSE)),
              SignalCheck(15, "Elevated Average True Range", FALSE, FALSE),
              SignalCheck(20, "Volume confirmation", FALSE, FALSE),
              SignalCheck(15, "Momentum confirmation", FALSE, FALSE)>>,
        noSignal |-> "No clear volatility patterns detected",
        boostOver |-> 100, boost |-> Q(1, 1), boosted |-> <<>>,
        baseWeight |-> Q(75, 100), weightCap |-> Q(90, 100),
        accuracyFactor |-> Q(90, 100), accuracyCap |-> Q(85, 100),
        decayFrom |-> Q(90, 100), decayBy |-> Q(20, 100),
        baseIndicator |-> OrElse(FindIndicator(indicators, "sma"),
                                 first),
        label |-> "Volatility Breakout_Volatility"]

\* (an assignment that replaces whatever was decided before)
AssignRegardless(recommendation, guarded, value) == value

\* the assignment of a directional check that fires: recommendation = value,
\* or if (recommendation === "neutral") recommendation = value
Assign(recommendation, guarded, value) ==
    IF guarded /\ recommendation # "neutral" THEN recommendation ELSE value

\* the local variables of an execute() before its first check; history is
\* the value of recommendation after each directional check that fired
NoSignalYet ==
    [confidenceScore |-> Q(0, 1), reasons |-> <<>>, flagged |-> 0,
     recommendation |-> "neutral", history |-> <<>>, floor |-> 0]

RECURSIVE ApplyChecks(_, _, _, _, _)
\* the checks of an execute() in turn, from the k-th: a fired check pushes
\* its reason, adds to confidenceScore and, if directional, assigns the
\* direction its analysis found; the VWAP check of Golden Cross that does
\* not fire pushes a warning and scales confidenceScore by 0.8
ApplyChecks(checks, fired, directions, k, s) ==
    IF k > Len(checks) THEN s
    ELSE LET c == checks[k]
             decided == IF c.directional
                        THEN Assign(s.recommendation, c.guarded, directions[k])
                        ELSE s.recommendation
             next ==
                 IF k \in fired
                 THEN [confidenceScore |-> QAdd(s.confidenceScore, Q(c.adds, 100)),
                       reasons |-> Append(s.reasons, c.reason),
                       flagged |-> s.flagged + (IF c.flagged THEN 1 ELSE 0),
                       recommendation |-> decided,
                       history |-> IF c.directional
                                   THEN Append(s.history, decided)
                                   ELSE s.history,
                       floor |-> Max2(s.floor, c.floor)]
                 ELSE IF c.otherwise
                 THEN [s EXCEPT !.confidenceScore = QMul(@, Q(8, 10)),
                                !.reasons = Append(@, "Volume divergence detected")]
                 ELSE s
         IN CHOOSE r \in {ApplyChecks(checks, fired, directions, k + 1, n) :
                             n \in {next}} : TRUE

\* (a confidenceScore that is not capped)
CapConfidenceNot(confidenceScore) == confidenceScore

\* Math.min(confidenceScore, 1.0)
CapConfidence(confidenceScore) == FMin(confidenceScore, Q(1, 1))

\* the forecast of one of the four strategies: for each day up to
\* forecastDays that the base indicator has a point for, the point with
\* confidence basePoint.confidence * (decayFrom - (day / forecastDays) * decayBy)
DecayedForecast(strategy, forecastDays) ==
    LET base == strategy.baseIndicator[1].forecast
        points == Relabel(base, strategy.label)
        days == {day \in 1..forecastDays : FindPoint(base, day) # <<>>}
    IN [k \in 1..Cardinality(days) |->
          LET day == CHOOSE d \in days : Cardinality({e \in days : e < d}) = k - 1
              basePoint == FindPoint(points, day)[1]
          IN [basePoint EXCEPT !.confidence =
                 QMul(@, QSub(strategy.decayFrom,
                              QMul(Q(day, forecastDays), strategy.decayBy)))]]

\* execute(indicators, config) of one of the four strategies at time t on
\* the strategy cache sc, the checks of the set `fired` firing, the k-th
\* directional one finding directions[k]
ScoredExecute(sc, lastCleanup, sub, strategy, indicators, config, fired, directions, t) ==
    LET cacheKey == GenerateStrategyCacheKey(strategy.name, config,
                        CalculateIndicatorSignature(indicators))
        cachedResult == GetCachedStrategyResult(sc, lastCleanup, cacheKey, t)
        Scored(s) ==
            LET analysed == s.recommendation
                lifted == s.floor > 0 /\ analysed = "neutral"
                summed == IF lifted
                          THEN FMax(s.confidenceScore, Q(s.floor, 100))
                          ELSE s.confidenceScore
                pushed == PushIf(s.reasons, lifted,
                                 "Volatility compression ongoing")
                none == Len(pushed) = 0
                capped == IF none THEN Q(1, 10) ELSE CapConfidence(summed)
                boosts == s.flagged > strategy.boostOver
                confidenceScore ==
                    IF boosts THEN CapConfidence(QMul(capped, strategy.boost))
                    ELSE capped
                reasons ==
                    IF none THEN <<strategy.noSignal>>
                    ELSE IF boosts THEN pushed \o strategy.boosted
                    ELSE pushed
                result ==
                    StrategyResult(
                        TradeSignal(IF none THEN "neutral" ELSE analysed,
                                    reasons, confidenceScore, t, strategy.name),
                        DecayedForecast(strategy, config.forecastDays),
                        strategy.name,
                        FMin(QMul(Q(SumSeq([i \in 1..Len(indicators) |->
                                               indicators[i].accuracy]),
                                    1000 * Len(indicators)),
                                  strategy.accuracyFactor),
                             strategy.accuracyCap),
                        FMin(QMul(strategy.baseWeight, confidenceScore),
                             strategy.weightCap))
                stored == SetCachedStrategyResult(cachedResult.cache,
                              cachedResult.lastCleanup, cacheKey, result, t)
            IN ExecuteOutcome(FALSE, FALSE, fired # {}, result, stored.cache,
                              stored.lastCleanup, sub)
    IN IF cachedResult.hit
       THEN ExecuteOutcome(FALSE, TRUE, FALSE, cachedResult.result,
                           cachedResult.cache, cachedResult.lastCleanup, sub)
       ELSE IF strategy.unmet
       THEN ExecuteOutcome(TRUE, FALSE, FALSE, NoResult, cachedResult.cache,
                           cachedResult.lastCleanup, sub)
       ELSE CHOOSE r \in {Scored(s) : s \in
                {ApplyChecks(strategy.checks, fired, directions, 1,
                             NoSignalYet)}} : TRUE

(***************************************************************************)
(* Strategy Consensus Orchestrator: runAllStrategies                        *)
(* (strategy/runAllStrategies), on StrategyResults whose confidenceScore,   *)
(* weight, accuracy and forecast values are exact fractions.                *)
(***************************************************************************)
RECURSIVE QSum(_)
\* reduce((sum, x) => sum + x, 0) over fractions
QSum(s) ==
    IF s = <<>> THEN Q(0, 1)
    ELSE CHOOSE r \in {QAdd(x, rest) : x \in {Head(s)},
                                        rest \in {QSum(Tail(s))}} : TRUE

\* generateCombinedCacheKey(indicators, config)
GenerateCombinedCacheKey(indicators, config) ==
    <<"combined", config.symbol, config.forecastDays, config.lookbackPeriod,
      config.sensitivity, config.riskLevel,
      [i \in 1..Len(indicators) |->
          <<indicators[i].name, indicators[i].accuracy, indicators[i].weight,
            Len(indicators[i].forecast)>>]>>

\* combineSignals(results) at time t with its closure Map sc
CombineStrategySignals(sc, results, t) ==
    LET cacheKey == SignalCacheKey(results)
        found == MapHas(sc, cacheKey)
                 /\ t - MapGet(sc, cacheKey).timestamp < SIGNAL_CACHE_DURATION
        validResults ==
            FilterSeq(results, {i \in 1..Len(results) :
                FGt(results[i].signal.confidenceScore, Q(1, 10))})
        Weighted(recs) ==
            QSum([i \in 1..Len(validResults) |->
                IF validResults[i].signal.recommendation \in recs
                THEN QMul(validResults[i].signal.confidenceScore,
                          validResults[i].weight)
                ELSE Q(0, 1)])
        totalWeight == Weighted({"buy", "sell", "neutral"})
        Normalized(score) ==
            IF FGt(totalWeight, Q(0, 1)) THEN QDiv(score, totalWeight)
            ELSE Q(0, 1)
        normalizedBuyScore == Normalized(Weighted({"buy"}))
        normalizedSellScore == Normalized(Weighted({"sell"}))
        recommendation ==
            IF FGt(normalizedBuyScore, normalizedSellScore)
               /\ FGt(normalizedBuyScore, Q(3, 10)) THEN "buy"
            ELSE IF FGt(normalizedSellScore, normalizedBuyScore)
                    /\ FGt(normalizedSellScore, Q(3, 10)) THEN "sell"
            ELSE "neutral"
        confidenceScore ==
            IF recommendation = "buy" THEN normalizedBuyScore
            ELSE IF recommendation = "sell" THEN normalizedSellScore
            ELSE QMul(FMax(normalizedBuyScore, normalizedSellScore), Q(1, 2))
        significant ==
            FilterSeq(validResults, {i \in 1..Len(validResults) :
                FGt(validResults[i].signal.confidenceScore, Q(1, 2))})
        computed ==
            IF validResults = <<>>
            THEN TradeSignal("neutral",
                     << <<"No strategies provided valid signals">> >>,
                     Q(1, 10), t, "Combined Strategy")
            ELSE TradeSignal(recommendation,
                     << <<"Strategy consensus", CountOf(validResults, "buy"),
                          CountOf(validResults, "sell"),
                          CountOf(validResults, "neutral")>> >>
                     \o [i \in 1..Len(significant) |->
                            <<significant[i].name,
                              IF significant[i].signal.reasons = <<>>
                              THEN "Signal detected"
                              ELSE significant[i].signal.reasons[1]>>],
                     FMin(confidenceScore, Q(1, 1)), t, "Combined Strategy")
    IN IF found
       THEN [result |-> MapGet(sc, cacheKey).result, hit |-> TRUE, cache |-> sc]
       ELSE [result |-> computed, hit |-> FALSE,
             cache |-> MapSet(sc, [key |-> cacheKey, result |-> computed,
                                   timestamp |-> t])]

\* mergeForecasts(results, days) at time t with the cache m, on
\* StrategyResults: the merged forecast, the cache afterwards and the
\* results with the weights the call leaves in them.  A merged value is
\* given by the terms <<value, normalizedWeight>> of its weighted sum, in
\* the order of accumulation (the reduced fraction of the sum overflows
\* 32-bit integers); a total weight of 0 makes every
\* normalizedWeight infinite and every merged value 0, the empty sum.
MergeStrategyForecasts(m, results, days, t) ==
    LET cacheKey == GenerateMergedForecastCacheKey(results, days)
        cached == GetCachedMergedForecast(m, cacheKey, t)
        totalWeight == QSum([i \in 1..Len(results) |-> results[i].weight])
        Sum(day, field) ==
            IF totalWeight.n = 0 THEN <<>>
            ELSE LET with == FilterSeq(results, Contributing(results, day))
                 IN [i \in 1..Len(with) |->
                        <<with[i].forecast[FindDay(with[i].forecast, day)][field],
                          QDiv(with[i].weight, totalWeight)>>]
        mergedForecast ==
            FilterSeq([day \in 1..days |->
                          [day |-> day, high |-> Sum(day, "high"),
                           low |-> Sum(day, "low"), avg |-> Sum(day, "avg"),
                           confidence |-> Sum(day, "confidence"),
                           indicator |-> "MERGED_AVERAGE"]],
                      {day \in 1..days : Contributing(results, day) # {}})
    IN IF cached.hit
       THEN [result |-> cached.result, hit |-> TRUE, cache |-> cached.cache,
             results |-> results]
       ELSE [result |-> mergedForecast, hit |-> FALSE,
             cache |-> SetCachedMergedForecast(cached.cache, cacheKey,
                                               mergedForecast, t),
             results |-> IF totalWeight.n = 0
                         THEN [i \in 1..Len(results) |->
                                  [results[i] EXCEPT !.weight = Q(1, 1)]]
                         ELSE results]

\* which checks fire: none, the first the indicators admit, or all of them
FiredChecks(level, checks) ==
    IF level = "quiet" \/ checks = <<>> THEN {}
    ELSE IF level = "single" THEN {1}
    ELSE 1..Len(checks)

\* strategy.execute(indicators, config) of one of the four strategies above,
\* the checks that fire being those the level admits, all of them finding
\* the same direction
ExecuteScored(acc, strategy, indicators, config, level, direction, t) ==
    CHOOSE r \in
      {ScoredExecute(acc.cache, acc.lastCleanup, acc.sub, st, indicators,
                     config, FiredChecks(level, st.checks),
                     [k \in 1..Len(st.checks) |-> direction], t) :
       st \in {strategy}} : TRUE

\* strategy.execute(indicators, fullConfig) of the registry's strategy of
\* that name
ExecuteNamed(name, acc, indicators, config, draws, level, direction, t) ==
    CASE name = "Mean Reversion" ->
           MeanReversionExecute(acc.cache, acc.lastCleanup, acc.sub,
                                indicators, config, draws, t)
      [] name = "Candlestick Reversal" ->
           CandlestickExecute(acc.cache, acc.lastCleanup, acc.sub,
                              indicators, config, draws, t)
      [] name = "Breakout" ->
           ExecuteScored(acc, BreakoutStrategy(indicators), indicators,
                         config, level, direction, t)
      [] name = "Golden Cross" ->
           ExecuteScored(acc, GoldenCrossStrategy(indicators), indicators,
                         config, level, direction, t)
      [] name = "Momentum Divergence" ->
           ExecuteScored(acc, MomentumDivergenceStrategy(indicators),
                         indicators, config, level, direction, t)
      [] name = "Volatility Breakout" ->
           ExecuteScored(acc, VolatilityBreakoutStrategy(indicators),
                         indicators, config, level, direction, t)

\* try { return await strategy.execute(indicators, fullConfig) }
\* catch { return null }: the results so far with this strategy's, and the
\* caches it leaves
TryExecute(name, acc, indicators, config, draws, level, direction, t) ==
    CHOOSE a \in
      {[results |-> Append(acc.results,
                           IF o.threw THEN NoResult ELSE o.result),
        cache |-> o.cache, lastCleanup |-> o.lastCleanup, sub |-> o.sub] :
       o \in {ExecuteNamed(name, acc, indicators, config, draws, level,
                           direction, t)}} : TRUE

RECURSIVE ExecuteStrategies(_, _, _, _, _, _, _, _)
\* strategies.map(async (strategy) => ...) from the k-th strategy of the
\* registry: the executions run one after the other on the strategy cache
\* and the closure Maps
ExecuteStrategies(k, acc, indicators, config, draws, level, direction, t) ==
    IF k > Len(StrategyNames) THEN acc
    ELSE CHOOSE r \in
           {ExecuteStrategies(k + 1, a, indicators, config, draws, level,
                              direction, t) :
            a \in {TryExecute(StrategyNames[k], acc, indicators, config,
                              draws, level, direction, t)}} : TRUE

\* (a rejection as soon as one strategy has failed)
SomeStrategyFailed(results) == \E i \in 1..Len(results) : results[i] = NoResult

\* validResults.length === 0, validResults being results.filter(Boolean)
NoStrategySucceeded(results) == \A i \in 1..Len(results) : results[i] = NoResult

\* runAllStrategies(indicators, config) at time t on the caches c
RunAllStrategies(c, indicators, config, draws, level, direction, t) ==
    LET cacheKey == GenerateCombinedCacheKey(indicators, config)
        cachedResult == GetCachedCombinedResult(c.combinedResultCache,
                            c.combinedLastCleanup, cacheKey, t)
        Succeeded(ran) ==
            FilterSeq(ran.results, {i \in 1..Len(ran.results) :
                                       ran.results[i] # NoResult})
        Returned(ran, validResults, combinedSignal, combinedForecast) ==
            LET combinedResult ==
                    [individualResults |-> combinedForecast.results,
                     combinedSignal |-> combinedSignal.result,
                     combinedForecast |-> combinedForecast.result,
                     consensus |->
                         [buySignals |-> CountOf(validResults, "buy"),
                          sellSignals |-> CountOf(validResults, "sell"),
                          neutralSignals |-> CountOf(validResults, "neutral")],
                     performance |->
                         [totalWeight |->
                              QSum([i \in 1..Len(validResults) |->
                                       combinedForecast.results[i].weight]),
                          strategyCount |-> Len(validResults)]]
                stored == SetCachedCombinedResult(cachedResult.cache,
                              cachedResult.lastCleanup, cacheKey,
                              combinedResult, t)
                failed == {StrategyNames[i] : i \in
                              {j \in 1..Len(ran.results) :
                                  ran.results[j] = NoResult}}
                after == [strategyCache |-> ran.cache,
                          strategyLastCleanup |-> ran.lastCleanup,
                          subCache |-> ran.sub,
                          combinedResultCache |-> cachedResult.cache,
                          combinedLastCleanup |-> cachedResult.lastCleanup,
                          signalCache |-> c.signalCache,
                          mergedForecastCache |-> c.mergedForecastCache]
            IN IF NoStrategySucceeded(ran.results)
               THEN [ok |-> FALSE, hit |-> FALSE,
                     error |-> "No strategies executed successfully",
                     failed |-> failed, result |-> <<>>, caches |-> after]
               ELSE [ok |-> TRUE, hit |-> FALSE, error |-> "",
                     failed |-> failed, result |-> combinedResult,
                     caches |-> [after EXCEPT
                         !.combinedResultCache = stored.cache,
                         !.combinedLastCleanup = stored.lastCleanup,
                         !.signalCache = combinedSignal.cache,
                         !.mergedForecastCache = combinedForecast.cache]]
        Combined(ran) ==
            CHOOSE r \in
              {Returned(ran, validResults, combinedSignal, combinedForecast) :
                 validResults \in {Succeeded(ran)},
                 combinedSignal \in
                     {CombineStrategySignals(c.signalCache, Succeeded(ran), t)},
                 combinedForecast \in
                     {MergeStrategyForecasts(c.mergedForecastCache, Succeeded(ran),
                                             config.forecastDays, t)}} : TRUE
    IN IF cachedResult.hit
       THEN [ok |-> TRUE, hit |-> TRUE, error |-> "", failed |-> {},
             result |-> cachedResult.result,
             caches |-> [c EXCEPT
                 !.combinedResultCache = cachedResult.cache,
                 !.combinedLastCleanup = cachedResult.lastCleanup]]
       ELSE CHOOSE r \in {Combined(ran) : ran \in
                {ExecuteStrategies(1,
                     [results |-> <<>>, cache |-> c.strategyCache,
                      lastCleanup |-> c.strategyLastCleanup,
                      sub |-> c.subCache],
                     indicators, config, draws, level, direction, t)}} : TRUE

(***************************************************************************)
(* Calls of runAllStrategies.                                              *)
(***************************************************************************)
\* the indicator lists runAllStrategies is called with: none (every
\* strategy fails); a level RSI; a falling EMA with a level SMA; a low RSI
\* with level Bollinger bands; and a list every strategy accepts, its SMA of
\* full and its VWAP of no confidence
RunAllInputs ==
    LET Sure(points, c) ==
            [i \in 1..Len(points) |-> [points[i] EXCEPT !.confidence = c]]
    IN {<<>>,
        <<MkIndicator("RSI", 724, 120, MkPoints("RSI", <<50, 50, 50, 50>>, 0))>>,
        <<MkIndicator("EMA", 780, 150, MkPoints("EMA", <<120, 110, 100, 90>>, 0)),
          MkIndicator("SMA", 700, 100, MkPoints("SMA", <<100, 100, 100, 100>>, 5))>>,
        <<MkIndicator("RSI", 724, 120, MkPoints("RSI", <<30, 35, 30, 35>>, 0)),
          MkIndicator("BOLLINGER", 760, 110,
                      MkPoints("BOLLINGER", <<100, 100, 100, 100>>, 5))>>,
        <<MkIndicator("SMA", 700, 100,
                      Sure(MkPoints("SMA", <<90, 100, 115, 120>>, 5), 100)),
          MkIndicator("VWAP", 744, 80,
                      Sure(MkPoints("VWAP", <<100, 120, 90, 130>>, 5), 0)),
          MkIndicator("RSI", 724, 120, MkPoints("RSI", <<30, 35, 30, 35>>, 0)),
          MkIndicator("MACD", 750, 130, MkPoints("MACD", <<1, 2, 3, 4>>, 0)),
          MkIndicator("BOLLINGER", 760, 110,
                      MkPoints("BOLLINGER", <<100, 100, 100, 100>>, 5))>>}

\* the values Math.random() returns during a call of runAllStrategies
RunAllDraws == {d \in RandomDraws : d[1] = 25}

\* one runAllStrategies(indicators, {symbol, forecastDays}) from call to
\* return: it awaits only its own strategies, which await nothing
RunAllStrategiesCall ==
    /\ calls < MaxCalls
    /\ \E indicators \in RunAllInputs, draws \in RunAllDraws,
          scenario \in {<<"quiet", "buy">>, <<"single", "sell">>,
                        <<"aligned", "buy">>} :
          LET config == CHOOSE c \in StrategyConfigs : c.lookbackPeriod = 14
              level == scenario[1]
              direction == scenario[2]
          IN \E r \in {RunAllStrategies(
                          [strategyCache |-> strategyCache,
                           strategyLastCleanup |-> strategyLastCleanup,
                           subCache |-> subCache,
                           combinedResultCache |-> combinedResultCache,
                           combinedLastCleanup |-> combinedLastCleanup,
                           signalCache |-> signalCache,
                           mergedForecastCache |-> mergedForecastCache],
                          indicators, config, draws, level, direction, now)} :
                /\ call' = [op |-> "runAllStrategies", indicators |-> indicators,
                            config |-> config, ok |-> r.ok, hit |-> r.hit,
                            error |-> r.error, failed |-> r.failed,
                            result |-> r.result, at |-> now]
                /\ strategyCache' = r.caches.strategyCache
                /\ strategyLastCleanup' = r.caches.strategyLastCleanup
                /\ subCache' = r.caches.subCache
                /\ combinedResultCache' = r.caches.combinedResultCache
                /\ combinedLastCleanup' = r.caches.combinedLastCleanup
                /\ signalCache' = r.caches.signalCache
                /\ mergedForecastCache' = r.caches.mergedForecastCache
    /\ prev' = call
    /\ calls' = calls + 1
    /\ UNCHANGED <<now, ticks, indicatorCache, bt>>

\* time passes: a moment, or the lifetime of the combined-result cache
TickRunAll == TickBy({1, COMBINED_CACHE_DURATION})

NextRunAll == RunAllStrategiesCall \/ TickRunAll

SpecRunAll == Init /\ [][NextRunAll]_vars

(***************************************************************************)
(* Properties of runAllStrategies.                                         *)
(***************************************************************************)
\* a strategy's execute() rejects exactly when none of the indicators it
\* reads is in the list (Candlestick Reversal: when the list is empty)
RejectedBy(name, indicators) ==
    LET Lacks(parts) == \A part \in parts : FindIndicator(indicators, part) = <<>>
    IN CASE name = "Mean Reversion" -> Lacks({"rsi", "bollinger", "sma"})
         [] name = "Breakout" -> Lacks({"vwap", "macd", "bollinger"})
         [] name = "Golden Cross" -> Lacks({"ema", "sma"})
         [] name = "Momentum Divergence" -> Lacks({"rsi", "macd", "stochastic"})
         [] name = "Candlestick Reversal" -> indicators = <<>>
         [] name = "Volatility Breakout" -> Lacks({"bollinger"})

\* C12: runAllStrategies fails, with "No strategies executed successfully",
\* if and only if every one of the six strategies fails; when at least one
\* succeeds it returns normally and individualResults holds, in registry
\* order, exactly the strategies that did not fail.
C12_FailsIffAllFail ==
    call.op = "runAllStrategies" =>
        LET all == {StrategyNames[i] : i \in 1..Len(StrategyNames)}
            failing == {name \in all : RejectedBy(name, call.indicators)}
            NotFailing(name) == name \notin failing
        IN /\ call.ok <=> failing # all
           /\ ~call.ok => /\ call.error = "No strategies executed successfully"
                          /\ call.result = <<>>
           /\ call.ok => [i \in 1..Len(call.result.individualResults) |->
                             call.result.individualResults[i].name]
                         = SelectSeq(StrategyNames, NotFailing)
           /\ ~call.hit => call.failed = failing

\* a call that ran the strategies, three of which failed
C12_Witness ==
    /\ call.op = "runAllStrategies"
    /\ call.ok /\ ~call.hit
    /\ Cardinality(call.failed) = 3
    /\ Len(call.result.individualResults) = 3

\* 0 <= q <= 1
InUnitInterval(q) == ~FGt(Q(0, 1), q) /\ ~FGt(q, Q(1, 1))

\* C18: every confidenceScore of a TradeSignal, of any strategy and of
\* combineSignals, and every confidence of a ForecastPoint a strategy
\* produces lies in [0, 1], the indicators' forecast confidences lying in
\* [0, 1].
C18_ConfidenceInUnitInterval ==
    (call.op = "runAllStrategies" /\ call.ok) =>
        /\ InUnitInterval(call.result.combinedSignal.confidenceScore)
        /\ \A i \in 1..Len(call.result.individualResults) :
              LET result == call.result.individualResults[i]
              IN /\ InUnitInterval(result.signal.confidenceScore)
                 /\ \A j \in 1..Len(result.forecast) :
                       InUnitInterval(result.forecast[j].confidence)

\* a call on indicators of confidence 0 and 1 in which the reasons of the
\* Breakout strategy add up to more than 1
C18_Witness ==
    /\ call.op = "runAllStrategies" /\ call.ok /\ ~call.hit
    /\ \E i \in 1..Len(call.indicators) :
          call.indicators[i].forecast[1].confidence = 100
    /\ \E i \in 1..Len(call.indicators) :
          call.indicators[i].forecast[1].confidence = 0
    /\ \E i \in 1..Len(call.result.individualResults) :
          /\ call.result.individualResults[i].name = "Breakout"
          /\ Len(call.result.individualResults[i].signal.reasons) > 3
          /\ call.result.individualResults[i].signal.confidenceScore = Q(1, 1)

(***************************************************************************)
(* Calls of execute() of the check-list strategies, the directions their   *)
(* sub-analyses find drawn one by one.                                     *)
(***************************************************************************)
MaxScoredCalls == 1   \* calls of these execute() per behaviour
MaxFired == 3         \* checks that fire in one execute()

ScoredNames == {"Breakout", "Golden Cross", "Momentum Divergence", "Volatility Breakout"}

\* the strategy of that name, its checks those the indicator list admits
ScoredStrategy(name, indicators) ==
    CASE name = "Breakout" -> BreakoutStrategy(indicators)
      [] name = "Golden Cross" -> GoldenCrossStrategy(indicators)
      [] name = "Momentum Divergence" -> MomentumDivergenceStrategy(indicators)
      [] name = "Volatility Breakout" -> VolatilityBreakoutStrategy(indicators)

\* the indicator lists these execute() are called with: one that admits
\* every check of every strategy, and one with a single moving average
ScoredInputs ==
    {<<MkIndicator("SMA", 700, 100, MkPoints("SMA", <<90, 100, 115, 120>>, 5)),
       MkIndicator("EMA", 780, 150, MkPoints("EMA", <<120, 110, 100, 90>>, 0)),
       MkIndicator("VWAP", 744, 80, MkPoints("VWAP", <<100, 120, 90, 130>>, 5)),
       MkIndicator("RSI", 724, 120, MkPoints("RSI", <<30, 35, 30, 35>>, 0)),
       MkIndicator("MACD", 750, 130, MkPoints("MACD", <<1, 2, 3, 4>>, 0)),
       MkIndicator("BOLLINGER", 760, 110,
                   MkPoints("BOLLINGER", <<100, 100, 100, 100>>, 5)),
       MkIndicator("ADX", 660, 70, MkPoints("ADX", <<30, 30, 30, 30>>, 0))>>,
     <<MkIndicator("SMA", 700, 100, MkPoints("SMA", <<90, 100, 115, 120>>, 5)),
       MkIndicator("BOLLINGER", 760, 110,
                   MkPoints("BOLLINGER", <<100, 100, 100, 100>>, 5)),
       MkIndicator("STOCHASTIC", 680, 90,
                   MkPoints("STOCHASTIC", <<20, 25, 20, 25>>, 0))>>}

\* the directional checks among the fired ones, in the order of the code
DirectionalFired(checks, fired) == {k \in fired : checks[k].directional}

\* the direction each check's analysis finds: `first` for the earliest
\* directional check that fires, `later` for the others
FoundDirections(checks, fired, first, later) ==
    [k \in 1..Len(checks) |->
        IF k \in DirectionalFired(checks, fired)
           /\ \A j \in DirectionalFired(checks, fired) : k <= j
        THEN first ELSE later]

\* the history of recommendation during an execute() that ran its checks
RecommendationHistory(r, checks, fired, directions) ==
    IF r.threw \/ r.hit THEN <<>>
    ELSE ApplyChecks(checks, fired, directions, 1, NoSignalYet).history

\* one execute() of a check-list strategy, from call to return
ScoredExecuteCall ==
    /\ calls < MaxScoredCalls
    /\ \E name \in ScoredNames, indicators \in ScoredInputs,
          first \in {"buy", "sell"}, later \in {"buy", "sell"} :
          \E strategy \in {ScoredStrategy(name, indicators)},
             config \in {c \in StrategyConfigs : c.lookbackPeriod = 14} :
             \E fired \in {S \in SUBSET (1..Len(strategy.checks)) :
                              Cardinality(S) <= MaxFired} :
                \E directions \in {FoundDirections(strategy.checks, fired,
                                                   first, later)} :
                   \E r \in {ScoredExecute(strategyCache, strategyLastCleanup,
                                 subCache, strategy, indicators, config, fired,
                                 directions, now)} :
                      /\ call' = [op |-> "execute", strategy |-> name,
                                  indicators |-> indicators, config |-> config,
                                  threw |-> r.threw, hit |-> r.hit,
                                  fired |-> r.fired, result |-> r.result,
                                  at |-> now, checks |-> fired,
                                  directions |-> directions,
                                  history |-> RecommendationHistory(r,
                                      strategy.checks, fired, directions)]
                      /\ strategyCache' = r.cache
                      /\ strategyLastCleanup' = r.lastCleanup
                      /\ subCache' = r.sub
    /\ prev' = call
    /\ calls' = calls + 1
    /\ UNCHANGED <<now, ticks, mergedForecastCache, indicatorCache,
                   combinedResultCache, combinedLastCleanup, signalCache, bt>>

NextScored == ScoredExecuteCall \/ TickStrategy

SpecScored == Init /\ [][NextScored]_vars

\* the first value other than "neutral" that recommendation took
FirstDecided(history) ==
    LET decided == {k \in 1..Len(history) : history[k] # "neutral"}
    IN IF decided = {} THEN "neutral"
       ELSE history[CHOOSE k \in decided : \A j \in decided : k <= j]

\* C28: within one execute() of a strategy, once recommendation is "buy" or
\* "sell" no later sub-signal changes it: the returned signal's
\* recommendation is the first value other than "neutral" assigned in that
\* execution.
C28_FirstDecisionKept ==
    (call.op = "execute" /\ call.history # <<>>) =>
        /\ call.result.signal.recommendation = FirstDecided(call.history)
        /\ \A k \in 1..(Len(call.history) - 1) :
              call.history[k] # "neutral" => call.history[k + 1] = call.history[k]

\* a Breakout or Golden Cross execute() in which a later directional check
\* found the opposite of an earlier one and the earlier direction was returned
C28_Witness ==
    /\ call.op = "execute" /\ call.strategy \in {"Breakout", "Golden Cross"}
    /\ Len(call.history) >= 2
    /\ \E j, k \in DirectionalFired(ScoredStrategy(call.strategy,
                                        call.indicators).checks, call.checks) :
          j < k /\ call.directions[j] # call.directions[k]
    /\ call.result.signal.recommendation = call.history[1]

====
